---- MODULE Spec2Model ----
(***************************************************************************)
(* Verification model of the OpenPSG streaming pipeline primitives:        *)
(*   - CircularBuffer   (fixed-capacity overwrite-oldest ring buffer)      *)
(*   - Channel          (async producer/consumer hand-off, lib/stream.ts)  *)
(*   - KLLSketch        (streaming quantile sketch, lib/kll/kll.ts)        *)
(*   - quickselect / percentile (lib/alg/quickselect.ts)                   *)
(* and of the signal path built on them:                                   *)
(*   - linear resample  (lib/resampling/linear.ts)                         *)
(*   - EDF writer loop  (components/record/utils.ts)                       *)
(*   - lttb             (lib/resampling/lttb.ts)                           *)
(*   - deriveHRV        (lib/derivations/hrv.ts)                           *)
(*   - FIRFilter        (FIR filter with a rolling state buffer)           *)
(*   - SnoreMicDriver   (lib/drivers/snore-mic.ts)                         *)
(*   - startStreaming   (components/record/utils.ts)                       *)
(* and of the filter designers and the audio resampler:                    *)
(*   - IIR coefficient designers and calcCoeffs (cascade designer)         *)
(*   - FIRCoeffs        (lib/filters/fir-coeffs.ts)                        *)
(*   - ResampleProcessor (lib/resampling/webaudio.js)                      *)
(* Each component has its own specification (SpecCB, SpecCh, SpecKLL,      *)
(* SpecQS, SpecLin, SpecEdf, SpecLttb, SpecHrv, SpecFir, SpecSn, SpecSs,   *)
(* SpecIir, SpecFc, SpecRp); the variables of the other components stay    *)
(* parked.                                                                 *)
(***************************************************************************)
EXTENDS Integers, Sequences, FiniteSets, TLC

VARIABLES
    buf,        \* CircularBuffer instance: [capacity_, data, head, size_]
    cb_ref,     \* reference FIFO list driven by the same calls
    cb_last,    \* last CircularBuffer call: [op, arg, ret, refRet, before]
    cb_hist,    \* values given to push() while no other call has been made
    cb_pure,    \* TRUE while every call so far was push()
    cb_nops     \* number of CircularBuffer calls made

VARIABLES
    chan,       \* Channel instance: [queue, resolvers, rejecters, aborted,
                \*   error, listeners, promise]
    ch_gen,     \* per iterator: state of its async generator
    ch_out,     \* per iterator: outcomes of its completed next() calls
    ch_wait,    \* per iterator: error of the close() that found it waiting
    ch_pushed,  \* items accepted by push(), in call order
    ch_lastPush,\* last push() call: [n, item, threw]
    ch_used,    \* iterators on which next() has been called
    ch_ncalls   \* [push, close]: number of push() / close() calls made

VARIABLES
    levels,     \* KLLSketch.levels: levels[h + 1] holds the items of level h
    eager,      \* KLLSketch.eager (the eagerCompaction option)
    kll_n,      \* number of finite values added so far
    kll_smin,   \* smallest finite value added so far (0 before the first)
    kll_smax,   \* largest finite value added so far (0 before the first)
    kll_nops    \* number of add / addMany calls made

VARIABLES
    qs_arr,     \* the array handed to percentile (indices 0..n-1), mutated
    qs_orig,    \* a copy of that array as it was before the call
    qs_p,       \* the argument p as a fraction [n, d]
    qs_method,  \* the argument method ("undefined" when omitted)
    qs_pc,      \* "call" before percentile runs, then "returned" / "threw"
    qs_result   \* the returned value (0 when it threw)

cbvars == <<buf, cb_ref, cb_last, cb_hist, cb_pure, cb_nops>>

chvars == <<chan, ch_gen, ch_out, ch_wait, ch_pushed, ch_lastPush, ch_used,
            ch_ncalls>>

kllvars == <<levels, eager, kll_n, kll_smin, kll_smax, kll_nops>>

qsvars == <<qs_arr, qs_orig, qs_p, qs_method, qs_pc, qs_result>>

VARIABLES
    lin_in,     \* the series handed to the linear resample: <<[t, v], ...>>
    lin_n,      \* the argument n
    lin_bs,     \* result of the binary-search resample ("none" before)
    lin_tp      \* result of the two-pointer resample ("none" before)

linvars == <<lin_in, lin_n, lin_bs, lin_tp>>

VARIABLES
    edf_spr,    \* signals[i].samplesPerRecord, per channel
    edf_bufs,   \* valuesRef.current: one CircularBuffer of samples per channel
    edf_tick,   \* last firing of the writer loop: [fired, fromTime, record,
                \*   bufs (the buffers as they were at that firing)]
    edf_now,    \* Date.now() at the last firing
    edf_npush   \* number of samples pushed so far

edfvars == <<edf_spr, edf_bufs, edf_tick, edf_now, edf_npush>>

VARIABLES
    ltb_in,     \* the series handed to lttb: [timestamps, values]
    ltb_n,      \* the argument n
    ltb_out     \* [done, res]: the result of lttb once it has run

lttbvars == <<ltb_in, ltb_n, ltb_out>>

VARIABLES
    hrv_window, \* the window argument of deriveHRV: [nan, v]
    hrv_buf,    \* rrBuffer
    hrv_last,   \* the RR value accepted most recently (0 when none)
    hrv_log,    \* per RR interval of the last measurement: [rrMs, accepted,
                \*   last, before, after]
    hrv_in,     \* measurements taken from the source stream, in order
    hrv_out,    \* measurements yielded: [m, hrv, window (rrBuffer then),
                \*   nacc (RR values accepted up to then)]
    hrv_done    \* the source stream has ended

hrvvars == <<hrv_window, hrv_buf, hrv_last, hrv_log, hrv_in, hrv_out, hrv_done>>

VARIABLES
    fir_f,      \* FIRFilter.f: the taps
    fir_z,      \* FIRFilter.z of the instance under test: [buf, pointer]
    fir_twin,   \* z of a second instance that is never asked to simulate
    fir_last,   \* last call: [op, out, twinOut, freshOut]
    fir_sims,   \* number of simulate calls made
    fir_nops    \* number of calls made

firvars == <<fir_f, fir_z, fir_twin, fir_last, fir_sims, fir_nops>>

VARIABLES
    sn_running, \* SnoreMicDriver.running
    sn_last,    \* SnoreMicDriver.lastWallTsMs: [def, ms]
    sn_queue,   \* chunks pushed to the driver's queue, not yet taken
    sn_cur,     \* rest of the chunk values() is yielding from
    sn_emitted, \* timestamps of the values yielded so far, in order
    sn_nmsg     \* number of worklet messages handled

snvars == <<sn_running, sn_last, sn_queue, sn_cur, sn_emitted, sn_nmsg>>

VARIABLES
    ss_start,   \* startStreaming's startIndex
    ss_hasOnError, \* whether an onError callback was given
    ss_bufs,    \* valuesRef.current: buffers of signals 0 and 1
    ss_state,   \* "streaming", "ended" (stream done) or "caught" (it threw)
    ss_cause,   \* why the stream stopped: "none", "end", "shutdown", "failure"
    ss_onError, \* the errors onError has been called with
    ss_nyield   \* number of iterations of the loop so far

ssvars == <<ss_start, ss_hasOnError, ss_bufs, ss_state, ss_cause, ss_onError,
            ss_nyield>>

VARIABLES
    iir_params, \* the params object the caller holds and hands to each call
    iir_orig,   \* that object as it was before the first call
    iir_calls   \* the calls made so far: <<[op, threw, err, value], ...>>

iirvars == <<iir_params, iir_orig, iir_calls>>

VARIABLES
    fc_order,   \* LowpassParams.order
    fc_raw,     \* the windowed-sinc values before the division by their sum
    fc_lp,      \* result of FIRCoeffs.lowpass (empty before the call)
    fc_hp       \* result of FIRCoeffs.highpass (empty before the call)

fcvars == <<fc_order, fc_raw, fc_lp, fc_hp>>

VARIABLES
    rp,         \* ResampleProcessor instance: [L, M, phases, bufCap, buf,
                \*   writePtr, writeAbs, nOut]
    rp_stream,  \* the input signal: 0 for the ramp 1, 2, 3, ..., else the
                \*   constant every sample has
    rp_out,     \* the outputs handed to enqueue so far, in order:
                \*   <<[n, q, have, y, reads], ...>>
    rp_ncalls   \* number of process() calls made

rpvars == <<rp, rp_stream, rp_out, rp_ncalls>>

corevars == <<cbvars, chvars, kllvars, qsvars>>

sigvars == <<linvars, edfvars, lttbvars, hrvvars, firvars, snvars, ssvars>>

dspvars == <<iirvars, fcvars, rpvars>>

notLin == <<corevars, edfvars, lttbvars, hrvvars, firvars, snvars, ssvars,
    dspvars>>

notEdf == <<corevars, linvars, lttbvars, hrvvars, firvars, snvars, ssvars,
    dspvars>>

notLttb == <<corevars, linvars, edfvars, hrvvars, firvars, snvars, ssvars,
    dspvars>>

notHrv == <<corevars, linvars, edfvars, lttbvars, firvars, snvars, ssvars,
    dspvars>>

notFir == <<corevars, linvars, edfvars, lttbvars, hrvvars, snvars, ssvars,
    dspvars>>

notSn == <<corevars, linvars, edfvars, lttbvars, hrvvars, firvars, ssvars,
    dspvars>>

notSs == <<corevars, linvars, edfvars, lttbvars, hrvvars, firvars, snvars,
    dspvars>>

notIir == <<corevars, sigvars, fcvars, rpvars>>

notFc == <<corevars, sigvars, iirvars, rpvars>>

notRp == <<corevars, sigvars, iirvars, fcvars>>

vars == <<corevars, sigvars, dspvars>>

(***************************************************************************)
(* Bounds                                                                  *)
(***************************************************************************)
MaxCap == 3        \* largest CircularBuffer capacity tried
MaxVal == 2        \* element values are 1..MaxVal
MaxFill == 2       \* longest iterable handed to fillFrom
MaxCbOps == 4      \* CircularBuffer calls per run
MaxPush == 3       \* Channel.push calls per run
MaxClose == 2      \* Channel.close calls per run
MaxNext == 2       \* next() calls per iterator per run
MaxKllOps == 3     \* KLLSketch add / addMany calls per run
PSteps == 4        \* quantile(p) / percentile(p) are sampled at p = i / PSteps
MaxLen == 4        \* longest array handed to percentile

MaxPts == 3        \* longest series handed to the linear resample

MaxT == 2          \* largest timestamp of a sample (milliseconds)

MaxN == 4          \* largest sample count asked of the linear resample

EdfCap == 2        \* capacity of each per-signal sample buffer

MaxSpr == 2        \* largest samplesPerRecord of a signal

MaxEdfPush == 3    \* samples streamed into the buffers

EPOCH_DURATION_MS == 1   \* the epoch, in model time units

MaxLttbLen == 5    \* longest series (and largest n) handed to lttb

MaxW == 2          \* largest HRV window a configuration asks for

MaxHrvTicks == 3   \* measurements taken from the source stream

MaxTaps == 3       \* most taps of a FIR filter

MaxBlock == 1      \* longest array handed to multiStep / simulate / filtfilt

MaxFirOps == 3     \* calls made on a FIR filter

MaxMs == 4         \* largest wall-clock estimate of a worklet message (ms)

MaxChunk == 2      \* most values in one worklet message

MaxSnMsgs == 3     \* worklet messages handled

MaxSsYields == 3   \* iterations of startStreaming's loop

MaxOrder == 2      \* small cascade orders tried (12, 13 and 40 are always tried)

MaxFcOrder == 4     \* largest order handed to FIRCoeffs.lowpass / highpass

TapsPerPhase == 2   \* tapsPerPhase of the resampler (the code takes at least 8)

MaxRpBlock == 3     \* longest input block handed to one process() call

MaxRpCalls == 3     \* process() calls made

MaxIirCalls == 2    \* successive calls made with one params object

(***************************************************************************)
(* Generic helpers                                                         *)
(***************************************************************************)
Values == 1..MaxVal

\* JavaScript's undefined, as stored in an empty slot or returned by a call.
Undefined == 0

SeqsUpTo(S, n) == UNION {[1..k -> S] : k \in 0..n}

(***************************************************************************)
(* CircularBuffer                                                          *)
(***************************************************************************)

\* new CircularBuffer(capacity): capacity slots, all empty, head 0, size 0.
CircularBuffer_new(capacity) ==
    [capacity_ |-> capacity,
     data      |-> [i \in 0..(capacity - 1) |-> Undefined],
     head      |-> 0,
     size_     |-> 0]

isFull(b) == b.size_ = b.capacity_

isEmpty(b) == b.size_ = 0

\* toArray(): the size_ elements from head on, modulo capacity.
toArray(b) ==
    [i \in 1..b.size_ |-> b.data[(b.head + (i - 1)) % b.capacity_]]

\* A push that overwrites the head slot but forgets to advance head.
CircularBuffer_push_stuckHead(b, value) ==
    IF b.size_ < b.capacity_
    THEN [buf |-> [b EXCEPT !.data[(b.head + b.size_) % b.capacity_] = value,
                            !.size_ = b.size_ + 1],
          ret |-> Undefined]
    ELSE [buf |-> [b EXCEPT !.data[b.head] = value],
          ret |-> b.data[b.head]]

\* push(value): append when not full, else overwrite at head and advance head.
CircularBuffer_push(b, value) ==
    IF b.size_ < b.capacity_
    THEN [buf |-> [b EXCEPT !.data[(b.head + b.size_) % b.capacity_] = value,
                            !.size_ = b.size_ + 1],
          ret |-> Undefined]
    ELSE [buf |-> [b EXCEPT !.data[b.head] = value,
                            !.head = (b.head + 1) % b.capacity_],
          ret |-> b.data[b.head]]

\* tryPush(value): refuse (false) when full, else store at the tail (true).
CircularBuffer_tryPush(b, value) ==
    IF isFull(b)
    THEN [buf |-> b, ret |-> FALSE]
    ELSE [buf |-> [b EXCEPT !.data[(b.head + b.size_) % b.capacity_] = value,
                            !.size_ = b.size_ + 1],
          ret |-> TRUE]

\* A dequeue that forgets to advance head.
CircularBuffer_dequeue_stuckHead(b) ==
    IF b.size_ = 0
    THEN [buf |-> b, ret |-> Undefined]
    ELSE [buf |-> [b EXCEPT !.data[b.head] = Undefined,
                            !.size_ = b.size_ - 1],
          ret |-> b.data[b.head]]

\* dequeue(): remove and return the element at head; undefined when empty.
CircularBuffer_dequeue(b) ==
    IF b.size_ = 0
    THEN [buf |-> b, ret |-> Undefined]
    ELSE [buf |-> [b EXCEPT !.data[b.head] = Undefined,
                            !.head = (b.head + 1) % b.capacity_,
                            !.size_ = b.size_ - 1],
          ret |-> b.data[b.head]]

\* clear(): blank the logical range, reset head and size.
CircularBuffer_clear(b) ==
    [b EXCEPT !.data = [j \in 0..(b.capacity_ - 1) |->
                          IF \E i \in 0..(b.size_ - 1) :
                                 (b.head + i) % b.capacity_ = j
                          THEN Undefined ELSE b.data[j]],
              !.head = 0,
              !.size_ = 0]

\* fillFrom(iterable): push every element in order.
RECURSIVE CircularBuffer_fillFrom(_, _)
CircularBuffer_fillFrom(b, iterable) ==
    IF iterable = <<>> THEN b
    ELSE CircularBuffer_fillFrom(CircularBuffer_push(b, Head(iterable)).buf,
                                 Tail(iterable))

(* Reference FIFO list of capacity C, the yardstick for the ring buffer. *)
RefPush(l, C, x) == IF Len(l) = C THEN Append(Tail(l), x) ELSE Append(l, x)

RefTryPush(l, C, x) == IF Len(l) = C THEN l ELSE Append(l, x)

RefDequeue(l) == IF l = <<>> THEN l ELSE Tail(l)

RECURSIVE RefFill(_, _, _)
RefFill(l, C, xs) ==
    IF xs = <<>> THEN l ELSE RefFill(RefPush(l, C, Head(xs)), C, Tail(xs))

CBStart(c) ==
    /\ buf = CircularBuffer_new(c)
    /\ cb_ref = <<>>
    /\ cb_last = [op |-> "new", arg |-> Undefined, ret |-> Undefined,
                  refRet |-> Undefined, before |-> <<>>]
    /\ cb_hist = <<>>
    /\ cb_pure = TRUE
    /\ cb_nops = 0

CBInit == \E c \in 1..MaxCap : CBStart(c)

\* The buffer as constructed and left alone (other components' runs).
CBParked == CBStart(1)

CBPush ==
    /\ cb_nops < MaxCbOps
    /\ \E x \in Values :
         LET r == CircularBuffer_push(buf, x) IN
         /\ buf' = r.buf
         /\ cb_ref' = RefPush(cb_ref, buf.capacity_, x)
         /\ cb_last' = [op |-> "push", arg |-> x, ret |-> r.ret,
                        refRet |-> IF Len(cb_ref) = buf.capacity_
                                   THEN Head(cb_ref) ELSE Undefined,
                        before |-> toArray(buf)]
         /\ cb_hist' = IF cb_pure THEN Append(cb_hist, x) ELSE cb_hist
    /\ cb_nops' = cb_nops + 1
    /\ UNCHANGED <<cb_pure, chvars, kllvars, qsvars, sigvars, dspvars>>

CBTryPush ==
    /\ cb_nops < MaxCbOps
    /\ \E x \in Values :
         LET r == CircularBuffer_tryPush(buf, x) IN
         /\ buf' = r.buf
         /\ cb_ref' = RefTryPush(cb_ref, buf.capacity_, x)
         /\ cb_last' = [op |-> "tryPush", arg |-> x,
                        ret |-> IF r.ret THEN 1 ELSE 0,
                        refRet |-> IF Len(cb_ref) = buf.capacity_ THEN 0 ELSE 1,
                        before |-> toArray(buf)]
    /\ cb_nops' = cb_nops + 1
    /\ cb_pure' = FALSE
    /\ UNCHANGED <<cb_hist, chvars, kllvars, qsvars, sigvars, dspvars>>

CBDequeue ==
    /\ cb_nops < MaxCbOps
    /\ LET r == CircularBuffer_dequeue(buf) IN
         /\ buf' = r.buf
         /\ cb_ref' = RefDequeue(cb_ref)
         /\ cb_last' = [op |-> "dequeue", arg |-> Undefined, ret |-> r.ret,
                        refRet |-> IF cb_ref = <<>> THEN Undefined
                                   ELSE Head(cb_ref),
                        before |-> toArray(buf)]
    /\ cb_nops' = cb_nops + 1
    /\ cb_pure' = FALSE
    /\ UNCHANGED <<cb_hist, chvars, kllvars, qsvars, sigvars, dspvars>>

CBClear ==
    /\ cb_nops < MaxCbOps
    /\ buf' = CircularBuffer_clear(buf)
    /\ cb_ref' = <<>>
    /\ cb_last' = [op |-> "clear", arg |-> Undefined, ret |-> Undefined,
                   refRet |-> Undefined, before |-> toArray(buf)]
    /\ cb_nops' = cb_nops + 1
    /\ cb_pure' = FALSE
    /\ UNCHANGED <<cb_hist, chvars, kllvars, qsvars, sigvars, dspvars>>

CBFillFrom ==
    /\ cb_nops < MaxCbOps
    /\ \E xs \in SeqsUpTo(Values, MaxFill) :
         /\ buf' = CircularBuffer_fillFrom(buf, xs)
         /\ cb_ref' = RefFill(cb_ref, buf.capacity_, xs)
         /\ cb_last' = [op |-> "fillFrom", arg |-> Len(xs), ret |-> Undefined,
                        refRet |-> Undefined, before |-> toArray(buf)]
    /\ cb_nops' = cb_nops + 1
    /\ cb_pure' = FALSE
    /\ UNCHANGED <<cb_hist, chvars, kllvars, qsvars, sigvars, dspvars>>

CBNext == CBPush \/ CBTryPush \/ CBDequeue \/ CBClear \/ CBFillFrom

(***************************************************************************)
(* Channel (lib/stream.ts)                                                 *)
(*                                                                         *)
(* An iterator is one call of channel[Symbol.asyncIterator]().  Its async  *)
(* generator is "suspendedStart" before the first next(), "suspendedYield" *)
(* after it yielded, "awaiting" while its body awaits the hand-off         *)
(* promise, and "completed" after it threw.  A consumer has at most one    *)
(* next() call outstanding (for await).                                    *)
(***************************************************************************)
Iters == {1, 2}

\* Items handed through the channel.
Items == {1, 2}

\* Error objects: E0 is the one the field initialiser creates.
Errors == {"E1", "E2"}

NoErr == ""

NoPromise == [st |-> "none", item |-> Undefined, err |-> NoErr]

\* resolve()/reject() of a promise: only a pending promise changes.
Settle(p, st, item, err) ==
    IF p.st = "pending" THEN [st |-> st, item |-> item, err |-> err] ELSE p

\* new Channel()
Channel_new ==
    [queue     |-> <<>>,
     resolvers |-> <<>>,
     rejecters |-> <<>>,
     aborted   |-> FALSE,
     error     |-> "E0",
     listeners |-> {},
     promise   |-> [i \in Iters |-> NoPromise]]

\* A push that does not look at the abort signal.
Channel_push_noAbortCheck(c, item) ==
    IF Len(c.resolvers) > 0
    THEN LET i == Head(c.resolvers) IN
         [chan |-> [c EXCEPT !.resolvers = Tail(c.resolvers),
                             !.rejecters = Tail(c.rejecters),
                             !.listeners = c.listeners \ {i},
                             !.promise[i] = Settle(@, "fulfilled", item, NoErr)],
          threw |-> FALSE]
    ELSE [chan |-> [c EXCEPT !.queue = Append(c.queue, item)],
          threw |-> FALSE]

\* push(item): throws when aborted; hands the item to the oldest waiting
\* resolver (whose wrapper removes its abort listener), else queues it.
Channel_push(c, item) ==
    IF c.aborted
    THEN [chan |-> c, threw |-> TRUE]
    ELSE IF Len(c.resolvers) > 0
    THEN LET i == Head(c.resolvers) IN
         [chan |-> [c EXCEPT !.resolvers = Tail(c.resolvers),
                             !.rejecters = Tail(c.rejecters),
                             !.listeners = c.listeners \ {i},
                             !.promise[i] = Settle(@, "fulfilled", item, NoErr)],
          threw |-> FALSE]
    ELSE [chan |-> [c EXCEPT !.queue = Append(c.queue, item)],
          threw |-> FALSE]

\* controller.abort(): a no-op once aborted; else sets the flag and runs the
\* abort listeners (onAbort rejects with this.error; once: true).
Abort(c) ==
    IF c.aborted THEN c
    ELSE [c EXCEPT !.aborted = TRUE,
                   !.promise = [i \in Iters |->
                                  IF i \in c.listeners
                                  THEN Settle(c.promise[i], "rejected",
                                              Undefined, c.error)
                                  ELSE c.promise[i]],
                   !.listeners = {}]

\* The rejecters of close(): each removes its listener and rejects with err.
RejectAll(c, err) ==
    LET R == {c.rejecters[j] : j \in 1..Len(c.rejecters)} IN
    [c EXCEPT !.promise = [i \in Iters |->
                             IF i \in R
                             THEN Settle(c.promise[i], "rejected", Undefined, err)
                             ELSE c.promise[i]],
              !.listeners = c.listeners \ R,
              !.resolvers = <<>>,
              !.rejecters = <<>>]

\* A close that aborts before it stores the error.
Channel_close_abortFirst(c, err) ==
    [RejectAll(Abort(c), err) EXCEPT !.error = err]

\* close(error): store the error, abort, reject every pending rejecter,
\* forget resolvers and rejecters.
Channel_close(c, err) ==
    RejectAll(Abort([c EXCEPT !.error = err]), err)

NoOutcome == [kind |-> "none", item |-> Undefined, err |-> NoErr]

\* A generator body that takes the newest queued item.
Channel_next_takesNewest(c, g, i) ==
    IF g = "completed"
    THEN [chan |-> c, gen |-> g,
          out |-> [kind |-> "done", item |-> Undefined, err |-> NoErr]]
    ELSE IF c.aborted
    THEN [chan |-> c, gen |-> "completed",
          out |-> [kind |-> "throw", item |-> Undefined, err |-> c.error]]
    ELSE IF Len(c.queue) > 0
    THEN [chan |-> [c EXCEPT !.queue = SubSeq(c.queue, 1, Len(c.queue) - 1)],
          gen |-> "suspendedYield",
          out |-> [kind |-> "value", item |-> c.queue[Len(c.queue)],
                   err |-> NoErr]]
    ELSE [chan |-> [c EXCEPT !.promise[i] = [st |-> "pending",
                                             item |-> Undefined, err |-> NoErr],
                             !.listeners = c.listeners \cup {i},
                             !.resolvers = Append(c.resolvers, i),
                             !.rejecters = Append(c.rejecters, i)],
          gen |-> "awaiting",
          out |-> NoOutcome]

\* A generator body that looks at the queue before the abort signal.
Channel_next_queueFirst(c, g, i) ==
    IF g = "completed"
    THEN [chan |-> c, gen |-> g,
          out |-> [kind |-> "done", item |-> Undefined, err |-> NoErr]]
    ELSE IF Len(c.queue) > 0
    THEN [chan |-> [c EXCEPT !.queue = Tail(c.queue)],
          gen |-> "suspendedYield",
          out |-> [kind |-> "value", item |-> Head(c.queue), err |-> NoErr]]
    ELSE IF c.aborted
    THEN [chan |-> c, gen |-> "completed",
          out |-> [kind |-> "throw", item |-> Undefined, err |-> c.error]]
    ELSE [chan |-> [c EXCEPT !.promise[i] = [st |-> "pending",
                                             item |-> Undefined, err |-> NoErr],
                             !.listeners = c.listeners \cup {i},
                             !.resolvers = Append(c.resolvers, i),
                             !.rejecters = Append(c.rejecters, i)],
          gen |-> "awaiting",
          out |-> NoOutcome]

\* next() on iterator i whose generator is in state g: a completed generator
\* answers done; otherwise the body runs from the top of its loop: throws
\* this.error when aborted, yields the head of the queue when there is one,
\* else creates the hand-off promise (abort listener, resolver, rejecter) and
\* awaits it.
Channel_next(c, g, i) ==
    IF g = "completed"
    THEN [chan |-> c, gen |-> g,
          out |-> [kind |-> "done", item |-> Undefined, err |-> NoErr]]
    ELSE IF c.aborted
    THEN [chan |-> c, gen |-> "completed",
          out |-> [kind |-> "throw", item |-> Undefined, err |-> c.error]]
    ELSE IF Len(c.queue) > 0
    THEN [chan |-> [c EXCEPT !.queue = Tail(c.queue)],
          gen |-> "suspendedYield",
          out |-> [kind |-> "value", item |-> Head(c.queue), err |-> NoErr]]
    ELSE [chan |-> [c EXCEPT !.promise[i] = [st |-> "pending",
                                             item |-> Undefined, err |-> NoErr],
                             !.listeners = c.listeners \cup {i},
                             !.resolvers = Append(c.resolvers, i),
                             !.rejecters = Append(c.rejecters, i)],
          gen |-> "awaiting",
          out |-> NoOutcome]

\* The awaiting body resumes once its promise is settled: a fulfilled promise
\* is yielded (no second look at the abort signal), a rejected one is thrown
\* out of the generator, which completes it.
Channel_resume(c, i) ==
    IF c.promise[i].st = "fulfilled"
    THEN [chan |-> [c EXCEPT !.promise[i] = NoPromise],
          gen |-> "suspendedYield",
          out |-> [kind |-> "value", item |-> c.promise[i].item, err |-> NoErr]]
    ELSE [chan |-> [c EXCEPT !.promise[i] = NoPromise],
          gen |-> "completed",
          out |-> [kind |-> "throw", item |-> Undefined,
                   err |-> c.promise[i].err]]

ChInit ==
    /\ chan = Channel_new
    /\ ch_gen = [i \in Iters |-> "suspendedStart"]
    /\ ch_out = [i \in Iters |-> <<>>]
    /\ ch_wait = [i \in Iters |-> NoErr]
    /\ ch_pushed = <<>>
    /\ ch_lastPush = [n |-> 0, item |-> Undefined, threw |-> FALSE]
    /\ ch_used = {}
    /\ ch_ncalls = [push |-> 0, close |-> 0]

\* What the consumer of iterator i sees of one next() call, with the
\* circumstances of the call: waited = the error of the close() that found
\* it registered as a waiter, late = the call was made after a close(),
\* wasDone = its generator had already completed, cur = this.error when the
\* call was made.
Seen(o, waited, late, wasDone, cur) ==
    [kind |-> o.kind, item |-> o.item, err |-> o.err, waited |-> waited,
     late |-> late, wasDone |-> wasDone, cur |-> cur]

\* The producer calls push(item).
ChPush ==
    /\ ch_ncalls.push < MaxPush
    /\ \E item \in Items :
         LET r == Channel_push(chan, item) IN
         /\ chan' = r.chan
         /\ ch_pushed' = IF r.threw THEN ch_pushed ELSE Append(ch_pushed, item)
         /\ ch_lastPush' = [n |-> ch_ncalls.push + 1, item |-> item,
                            threw |-> r.threw]
    /\ ch_ncalls' = [ch_ncalls EXCEPT !.push = @ + 1]
    /\ UNCHANGED <<ch_gen, ch_out, ch_wait, ch_used, cbvars, kllvars, qsvars, sigvars, dspvars>>

\* Somebody calls close(err).
ChClose ==
    /\ ch_ncalls.close < MaxClose
    /\ \E err \in Errors :
         /\ chan' = Channel_close(chan, err)
         /\ ch_wait' = [i \in Iters |->
                          IF \E j \in 1..Len(chan.resolvers) : chan.resolvers[j] = i
                          THEN err ELSE ch_wait[i]]
    /\ ch_ncalls' = [ch_ncalls EXCEPT !.close = @ + 1]
    /\ UNCHANGED <<ch_gen, ch_out, ch_pushed, ch_lastPush, ch_used, cbvars, kllvars, qsvars, sigvars, dspvars>>

\* The consumer of iterator i calls next() (none of its calls is outstanding).
ChNext(i) ==
    /\ ch_gen[i] # "awaiting"
    /\ Len(ch_out[i]) < MaxNext
    /\ LET r == Channel_next(chan, ch_gen[i], i) IN
         /\ chan' = r.chan
         /\ ch_gen' = [ch_gen EXCEPT ![i] = r.gen]
         /\ ch_out' = IF r.out.kind = "none" THEN ch_out
                      ELSE [ch_out EXCEPT ![i] =
                              Append(@, Seen(r.out, NoErr, chan.aborted,
                                             ch_gen[i] = "completed",
                                             chan.error))]
    /\ ch_used' = ch_used \cup {i}
    /\ UNCHANGED <<ch_wait, ch_pushed, ch_lastPush, ch_ncalls, cbvars, kllvars, qsvars, sigvars, dspvars>>

\* The microtask that resumes iterator i's body after its promise settled.
ChResume(i) ==
    /\ ch_gen[i] = "awaiting"
    /\ chan.promise[i].st \in {"fulfilled", "rejected"}
    /\ LET r == Channel_resume(chan, i) IN
         /\ chan' = r.chan
         /\ ch_gen' = [ch_gen EXCEPT ![i] = r.gen]
         /\ ch_out' = [ch_out EXCEPT ![i] =
                         Append(@, Seen(r.out, ch_wait[i], FALSE, FALSE,
                                        chan.error))]
    /\ ch_wait' = [ch_wait EXCEPT ![i] = NoErr]
    /\ UNCHANGED <<ch_pushed, ch_lastPush, ch_used, ch_ncalls, cbvars, kllvars, qsvars, sigvars, dspvars>>

ChNext1 == \E i \in Iters : ChNext(i)

ChResume1 == \E i \in Iters : ChResume(i)

ChNextStep == ChPush \/ ChClose \/ ChNext1 \/ ChResume1

(***************************************************************************)
(* KLLSketch (lib/kll/kll.ts)                                              *)
(*                                                                         *)
(* Math.random() is a free choice, so every operation that compacts yields *)
(* the set of sketches the random draws can produce.  Values are integers  *)
(* and quantile() is computed in exact rational arithmetic.                *)
(***************************************************************************)

\* this.k = max(8, floor(opts.k)): the smallest base capacity.
K == 8

\* this.c = 2/3 (the default), as numerator and denominator.
CNum == 2

CDen == 3

\* Stream values: finite numbers, or a non-finite one (NaN, +-Infinity).
KValues == {1, 2, 3}

Fin(x) == [fin |-> TRUE, v |-> x]

NonFinite == [fin |-> FALSE, v |-> 0]

KInputs == {Fin(x) : x \in KValues} \cup {NonFinite}

\* Arrays handed to addMany.
KBatches ==
    { <<>>,
      <<NonFinite>>,
      <<Fin(3), Fin(1), Fin(2)>>,
      <<Fin(2), NonFinite, Fin(3), Fin(3)>>,
      <<Fin(1), Fin(2), Fin(2), Fin(3), Fin(1), Fin(3), Fin(2), Fin(2)>>,
      <<Fin(2), Fin(1), Fin(2), Fin(2), Fin(3), Fin(2), Fin(2), Fin(2),
        Fin(2), Fin(2)>> }

RECURSIVE Pow(_, _)
Pow(b, e) == IF e = 0 THEN 1 ELSE b * Pow(b, e - 1)

Max2(a, b) == IF a >= b THEN a ELSE b

Min2(a, b) == IF a <= b THEN a ELSE b

\* ensureLevel(h): push empty levels until levels.length > h.
RECURSIVE ensureLevel(_, _)
ensureLevel(lv, h) ==
    IF Len(lv) > h THEN lv ELSE ensureLevel(Append(lv, <<>>), h)

\* capacityAt(h) = max(2, evenFloor(k * c^(H - 1 - h))), H = levels.length.
capacityAt(lv, h) ==
    LET H    == Max2(1, Len(lv))
        exp  == (H - 1) - h
        raw  == (K * Pow(CNum, exp)) \div Pow(CDen, exp)
        even == IF raw % 2 = 1 THEN raw - 1 ELSE raw
    IN  Max2(2, even)

\* The survivor arrays compact() can draw from the sorted items: when the
\* count is odd either the first or the last item is discarded, then one of
\* each adjacent pair is kept.
Survivors(sorted) ==
    LET m      == Len(sorted)
        starts == IF m % 2 = 1 THEN {0, 1} ELSE {0}
        np     == m \div 2
    IN  { [j \in 1..np |-> sorted[start + 2 * (j - 1) + pick[j] + 1]] :
              start \in starts, pick \in [1..np -> {0, 1}] }

\* A compact(h) that does not chain into maybeCompact(h + 1).
compact_noChain(lv, h) ==
    IF Len(lv[h + 1]) < 2 THEN {lv}
    ELSE
      LET sorted == SortSeq(lv[h + 1], <)
          next(surv) ==
              LET l1 == ensureLevel(lv, h + 1)
              IN  [l1 EXCEPT ![h + 2] = l1[h + 2] \o surv,
                             ![h + 1] = <<>>]
      IN  { next(surv) : surv \in Survivors(sorted) }

\* compact(h) followed by the chained maybeCompact(h + 1): the set of
\* possible levels arrays.
RECURSIVE compact(_, _)
compact(lv, h) ==
    IF Len(lv[h + 1]) < 2 THEN {lv}
    ELSE
      LET sorted == SortSeq(lv[h + 1], <)
          next(surv) ==
              LET l1 == ensureLevel(lv, h + 1)
                  l2 == [l1 EXCEPT ![h + 2] = l1[h + 2] \o surv,
                                   ![h + 1] = <<>>]
              IN  IF Len(l2[h + 2]) > capacityAt(l2, h + 1)
                  THEN compact(l2, h + 1)
                  ELSE {l2}
      IN  UNION { next(surv) : surv \in Survivors(sorted) }

\* maybeCompact(h)
maybeCompact(lv, h) ==
    LET l1 == ensureLevel(lv, h) IN
    IF Len(l1[h + 1]) > capacityAt(l1, h) THEN compact(l1, h) ELSE {l1}

\* compactUpward(): one bottom-up pass from level h on; levels.length is
\* read again at every step.
RECURSIVE compactUpward(_, _)
compactUpward(lv, h) ==
    IF h >= Len(lv) THEN {lv}
    ELSE LET step == IF Len(lv[h + 1]) > capacityAt(lv, h)
                     THEN compact(lv, h) ELSE {lv}
         IN  UNION { compactUpward(l2, h + 1) : l2 \in step }

\* The finite values of an input array, in order.
RECURSIVE FiniteOf(_)
FiniteOf(arr) ==
    IF arr = <<>> THEN <<>>
    ELSE IF Head(arr).fin THEN <<Head(arr).v>> \o FiniteOf(Tail(arr))
    ELSE FiniteOf(Tail(arr))

\* An add(x) without the Number.isFinite guard: a non-finite x is stored
\* as if it were a number.
KLLSketch_add_keepsNonFinite(lv, eg, x) ==
    LET l1 == ensureLevel(lv, 0)
        l2 == [l1 EXCEPT ![1] = Append(l1[1], x.v)]
        after == maybeCompact(l2, 0)
    IN  IF eg THEN UNION { compactUpward(l3, 0) : l3 \in after }
        ELSE after

\* add(x): ignored when x is not finite; else pushed to level 0, then
\* maybeCompact(0) and, when eager, compactUpward().
KLLSketch_add(lv, eg, x) ==
    IF ~x.fin THEN {lv}
    ELSE LET l1 == ensureLevel(lv, 0)
             l2 == [l1 EXCEPT ![1] = Append(l1[1], x.v)]
             after == maybeCompact(l2, 0)
         IN  IF eg THEN UNION { compactUpward(l3, 0) : l3 \in after }
             ELSE after

\* addMany(arr): nothing for an empty array; else the finite values are
\* pushed to level 0, then one maybeCompact(0) and, when eager,
\* compactUpward().
KLLSketch_addMany(lv, eg, arr) ==
    IF Len(arr) = 0 THEN {lv}
    ELSE LET l1 == ensureLevel(lv, 0)
             l2 == [l1 EXCEPT ![1] = l1[1] \o FiniteOf(arr)]
             after == maybeCompact(l2, 0)
         IN  IF eg THEN UNION { compactUpward(l3, 0) : l3 \in after }
             ELSE after

\* size(): number of retained representatives.
RECURSIVE KLLSketch_size(_)
KLLSketch_size(lv) ==
    IF lv = <<>> THEN 0 ELSE Len(Head(lv)) + KLLSketch_size(Tail(lv))

\* mass(): sum over levels h of items.length * 2^h.
RECURSIVE MassFrom(_, _)
MassFrom(lv, h) ==
    IF h >= Len(lv) THEN 0
    ELSE Len(lv[h + 1]) * Pow(2, h) + MassFrom(lv, h + 1)

mass(lv) == MassFrom(lv, 0)

\* All representatives as [v, w] records, level by level (the vals / wts
\* arrays of quantile()).
RECURSIVE Reps(_, _)
Reps(lv, h) ==
    IF h >= Len(lv) THEN <<>>
    ELSE [i \in 1..Len(lv[h + 1]) |-> [v |-> lv[h + 1][i], w |-> Pow(2, h)]]
         \o Reps(lv, h + 1)

RepValues(lv) == {Reps(lv, 0)[i].v : i \in 1..Len(Reps(lv, 0))}

\* A min() that returns the first retained representative.
KllMin_first(lv) == Reps(lv, 0)[1].v

\* min(): minimum of the retained representatives.
KllMin(lv) == CHOOSE m \in RepValues(lv) : \A x \in RepValues(lv) : m <= x

\* max(): maximum of the retained representatives.
KllMax(lv) == CHOOSE m \in RepValues(lv) : \A x \in RepValues(lv) : m >= x

\* order.sort by value: stable insertion of e behind the entries <= e.v.
RECURSIVE InsertByValue(_, _)
InsertByValue(s, e) ==
    IF s = <<>> THEN <<e>>
    ELSE IF e.v < Head(s).v THEN <<e>> \o s
    ELSE <<Head(s)>> \o InsertByValue(Tail(s), e)

RECURSIVE SortByValue(_)
SortByValue(s) ==
    IF s = <<>> THEN <<>>
    ELSE InsertByValue(SortByValue(SubSeq(s, 1, Len(s) - 1)), s[Len(s)])

\* Rationals n / d with d > 0.
Rat(n, d) == [nan |-> FALSE, n |-> n, d |-> d]

NaN == [nan |-> TRUE, n |-> 0, d |-> 1]

RatLeq(a, b) == a.n * b.d <= b.n * a.d

RatEq(a, b) == a.n * b.d = b.n * a.d

\* An interpolation loop whose fraction is measured from the wrong end
\* ((center - r) / span instead of (r - prevCenter) / span).
RECURSIVE Walk_reversedFraction(_, _, _, _, _, _, _, _)
Walk_reversedFraction(reps, t, r2, pd, cw, first, prevCenter2, prevVal) ==
    IF t > Len(reps) THEN Rat(prevVal, 1)
    ELSE
      LET w       == reps[t].w
          v       == reps[t].v
          center2 == (2 * cw + w) * pd
      IN  IF r2 <= center2
          THEN IF first THEN Rat(v, 1)
               ELSE LET span2 == center2 - prevCenter2 IN
                    IF span2 <= 0 THEN Rat(v, 1)
                    ELSE Rat(prevVal * span2 + (center2 - r2) * (v - prevVal),
                             span2)
          ELSE Walk_reversedFraction(reps, t + 1, r2, pd, cw + w, FALSE,
                                     center2, v)

\* The interpolation loop of quantile() over the sorted representatives,
\* at entry t.  Ranks are scaled by 2 * pd: r2 = 2 * pd * r, a center
\* cw + w / 2 is (2 * cw + w) * pd.  first = no previous center yet.
RECURSIVE Walk(_, _, _, _, _, _, _, _)
Walk(reps, t, r2, pd, cw, first, prevCenter2, prevVal) ==
    IF t > Len(reps) THEN Rat(prevVal, 1)
    ELSE
      LET w       == reps[t].w
          v       == reps[t].v
          center2 == (2 * cw + w) * pd
      IN  IF r2 <= center2
          THEN IF first THEN Rat(v, 1)
               ELSE LET span2 == center2 - prevCenter2 IN
                    IF span2 <= 0 THEN Rat(v, 1)
                    ELSE Rat(prevVal * span2 + (r2 - prevCenter2) * (v - prevVal),
                             span2)
          ELSE Walk(reps, t + 1, r2, pd, cw + w, FALSE, center2, v)

\* quantile(p) for p = pn / pd (pd > 0).
quantile(lv, pn, pd) ==
    LET T == mass(lv) IN
    IF T = 0 THEN NaN
    ELSE IF pn <= 0 THEN Rat(KllMin(lv), 1)
    ELSE IF pn >= pd THEN Rat(KllMax(lv), 1)
    ELSE LET reps == SortByValue(Reps(lv, 0)) IN
         IF Len(reps) = 0 THEN NaN
         ELSE Walk(reps, 1, 2 * pn * (T - 1), pd, 0, TRUE, 0, reps[1].v)

KllInit ==
    /\ levels = <<>>
    /\ eager \in BOOLEAN
    /\ kll_n = 0
    /\ kll_smin = 0
    /\ kll_smax = 0
    /\ kll_nops = 0

\* The sketch as constructed and left alone (other components' runs).
KllParked == KllInit /\ eager = FALSE

\* Stream statistics after the finite values fs were added.
StreamMin(fs) ==
    LET S == {fs[i] : i \in 1..Len(fs)} \cup (IF kll_n = 0 THEN {} ELSE {kll_smin})
    IN  IF S = {} THEN 0 ELSE CHOOSE m \in S : \A x \in S : m <= x

StreamMax(fs) ==
    LET S == {fs[i] : i \in 1..Len(fs)} \cup (IF kll_n = 0 THEN {} ELSE {kll_smax})
    IN  IF S = {} THEN 0 ELSE CHOOSE m \in S : \A x \in S : m >= x

KllRecord(fs) ==
    /\ kll_n' = kll_n + Len(fs)
    /\ kll_smin' = StreamMin(fs)
    /\ kll_smax' = StreamMax(fs)
    /\ kll_nops' = kll_nops + 1

KllAdd ==
    /\ kll_nops < MaxKllOps
    /\ \E x \in KInputs :
         /\ levels' \in KLLSketch_add(levels, eager, x)
         /\ KllRecord(FiniteOf(<<x>>))
    /\ UNCHANGED <<eager, cbvars, chvars, qsvars, sigvars, dspvars>>

KllAddMany ==
    /\ kll_nops < MaxKllOps
    /\ \E arr \in KBatches :
         /\ levels' \in KLLSketch_addMany(levels, eager, arr)
         /\ KllRecord(FiniteOf(arr))
    /\ UNCHANGED <<eager, cbvars, chvars, qsvars, sigvars, dspvars>>

KllNext == KllAdd \/ KllAddMany

(***************************************************************************)
(* quickselect / percentile (lib/alg/quickselect.ts)                       *)
(*                                                                         *)
(* Arrays are functions on 0..n-1.  Math.random() is a free choice of the  *)
(* pivot index, so quickselect yields the set of outcomes the pivots can   *)
(* produce.  p is the fraction pn / pd (pd > 0).                           *)
(***************************************************************************)
QValues == {1, 2, 3}

ArrLen(arr) == Cardinality(DOMAIN arr)

\* A swap that copies arr[j] over arr[i] and loses arr[i].
swap_losesValue(arr, i, j) == [arr EXCEPT ![i] = arr[j]]

\* swap(arr, i, j)
swap(arr, i, j) == [arr EXCEPT ![i] = arr[j], ![j] = arr[i]]

\* The for loop of partition from index i on.
RECURSIVE PartitionLoop(_, _, _, _, _)
PartitionLoop(arr, i, right, store, pivotValue) ==
    IF i >= right THEN [arr |-> arr, store |-> store]
    ELSE IF arr[i] < pivotValue
    THEN PartitionLoop(swap(arr, i, store), i + 1, right, store + 1, pivotValue)
    ELSE PartitionLoop(arr, i + 1, right, store, pivotValue)

\* A partition that leaves the pivot at the right end.
partition_noFinalSwap(arr, left, right, pivotIndex) ==
    PartitionLoop(swap(arr, pivotIndex, right), left, right, left,
                  arr[pivotIndex])

\* partition(arr, left, right, pivotIndex): Lomuto; returns the array and
\* the final index of the pivot.
partition(arr, left, right, pivotIndex) ==
    LET r == PartitionLoop(swap(arr, pivotIndex, right), left, right, left,
                           arr[pivotIndex])
    IN  [arr |-> swap(r.arr, r.store, right), store |-> r.store]

\* The while loop of quickselect: every outcome some pivot choices produce.
RECURSIVE QuickselectLoop(_, _, _, _)
QuickselectLoop(arr, k, left, right) ==
    IF left > right
    THEN {[arr |-> arr, threw |-> TRUE, ret |-> 0]}
    ELSE UNION {
           LET r == partition(arr, left, right, pivotIndex) IN
           IF k = r.store
           THEN {[arr |-> r.arr, threw |-> FALSE, ret |-> r.arr[k]]}
           ELSE IF k < r.store
           THEN QuickselectLoop(r.arr, k, left, r.store - 1)
           ELSE QuickselectLoop(r.arr, k, r.store + 1, right)
           : pivotIndex \in left..right }

\* quickselect(arr, k) with the default left = 0, right = arr.length - 1.
quickselect(arr, k) ==
    IF k < 0 \/ k >= ArrLen(arr)
    THEN {[arr |-> arr, threw |-> TRUE, ret |-> 0]}
    ELSE QuickselectLoop(arr, k, 0, ArrLen(arr) - 1)

\* Math.ceil(a / b) and Math.floor(a / b) for b > 0.
CeilDiv(a, b) == 0 - ((0 - a) \div b)

FloorDiv(a, b) == a \div b

\* percentileIndex(n, p, method) for n > 0.
percentileIndex(n, pn, pd, method) ==
    LET ppn == Min2(Max2(pn, 0), pd)
        k   == IF method = "nearest_rank"
               THEN CeilDiv(ppn * n, pd) - 1
               ELSE FloorDiv(ppn * (n - 1), pd)
    IN  Min2(Max2(k, 0), n - 1)

\* percentile(arr, p, method)
percentile(arr, pn, pd, method) ==
    IF ArrLen(arr) = 0
    THEN {[arr |-> arr, threw |-> TRUE, ret |-> 0]}
    ELSE quickselect(arr,
                     percentileIndex(ArrLen(arr), pn, pd,
                                     IF method = "undefined"
                                     THEN "nearest_rank" ELSE method))

QsInit ==
    /\ \E n \in 0..MaxLen : qs_orig \in [0..(n - 1) -> QValues]
    /\ qs_arr = qs_orig
    /\ \E pn \in (0 - 1)..(PSteps + 1) : qs_p = [n |-> pn, d |-> PSteps]
    /\ qs_method \in {"nearest_rank", "lower", "undefined"}
    /\ qs_pc = "call"
    /\ qs_result = 0

\* No percentile call is set up (other components' runs).
QsParked ==
    /\ qs_orig = <<>>
    /\ qs_arr = <<>>
    /\ qs_p = [n |-> 0, d |-> 1]
    /\ qs_method = "undefined"
    /\ qs_pc = "call"
    /\ qs_result = 0

\* The caller runs percentile(arr, p, method).
QsPercentile ==
    /\ qs_pc = "call"
    /\ \E r \in percentile(qs_arr, qs_p.n, qs_p.d, qs_method) :
         /\ qs_arr' = r.arr
         /\ qs_pc' = IF r.threw THEN "threw" ELSE "returned"
         /\ qs_result' = r.ret
    /\ UNCHANGED <<qs_orig, qs_p, qs_method, cbvars, chvars, kllvars, sigvars, dspvars>>

QsNext == QsPercentile

(***************************************************************************)
(* Linear resample (lib/resampling/linear.ts)                              *)
(* Timestamps are integers (milliseconds); interpolated times and values   *)
(* are exact fractions, so "exactly equal" is decided without rounding.    *)
(***************************************************************************)
LinValues == {1, 3}

LinTimes == 0..MaxT

LinPoints == [t : LinTimes, v : LinValues]

\* A fraction with a positive denominator.
Frac(n, d) == IF d < 0 THEN Rat(0 - n, 0 - d) ELSE Rat(n, d)

\* { timestamp: new Date(timestamp), value } / a reused input sample.
LinCopy(p) == [t |-> Rat(p.t, 1), v |-> Rat(p.v, 1)]

NotRun == [done |-> FALSE, out |-> <<>>]

\* The binary search for the interpolation bounds; targetTime = tn / td.
RECURSIVE LinBisect(_, _, _, _, _)
LinBisect(input, left, right, tn, td) ==
    IF left < right - 1
    THEN LET mid == (left + right) \div 2
         IN  IF input[mid + 1].t * td < tn
             THEN LinBisect(input, mid, right, tn, td)
             ELSE LinBisect(input, left, mid, tn, td)
    ELSE <<left, right>>

\* One iteration of the output loop of the binary-search resample.
LinBisectPoint(input, n, i) ==
    LET length    == Len(input)
        startTime == input[1].t
        total     == input[length].t - startTime
        td        == n - 1
        tn        == startTime * td + i * total
        lr        == LinBisect(input, 0, length - 1, tn, td)
        leftTime   == input[lr[1] + 1].t
        rightTime  == input[lr[2] + 1].t
        leftValue  == input[lr[1] + 1].v
        rightValue == input[lr[2] + 1].v
        num == tn - leftTime * td
        den == td * (rightTime - leftTime)
    IN  [t |-> Rat(tn, td),
         v |-> IF rightTime = leftTime
               THEN Rat(leftValue, 1)
               ELSE Frac(leftValue * (den - num) + rightValue * num, den)]

\* resample(input, n), binary-search version.
resample_binarySearch(input, n) ==
    LET length == Len(input)
    IN  IF length = 0 \/ n = 0 THEN <<>>
        ELSE IF length = n THEN [i \in 1..n |-> LinCopy(input[i])]
        ELSE IF n = 1 THEN <<LinCopy(input[((length - 1) \div 2) + 1])>>
        ELSE [i \in 1..n |-> LinBisectPoint(input, n, i - 1)]

\* while (rightTime < targetTime && j < length - 2) j++
RECURSIVE LinAdvance(_, _, _, _)
LinAdvance(input, j, tn, td) ==
    IF input[j + 2].t * td < tn /\ j < Len(input) - 2
    THEN LinAdvance(input, j + 1, tn, td)
    ELSE j

\* The two-pointer sweep for i = 1 .. n - 2; out holds out[0 .. i - 1].
RECURSIVE LinSweep(_, _, _, _, _)
LinSweep(input, n, i, j, out) ==
    IF i >= n - 1 THEN out
    ELSE LET td    == n - 1
             tn    == input[1].t * td + i * (input[Len(input)].t - input[1].t)
             j2    == LinAdvance(input, j, tn, td)
             left  == input[j2 + 1]
             right == input[j2 + 2]
             denom == right.t - left.t
             num   == tn - left.t * td
             pt    == IF tn <= left.t * td THEN LinCopy(left)
                      ELSE IF tn >= right.t * td THEN LinCopy(right)
                      ELSE [t |-> Rat(tn, td),
                            v |-> IF denom = 0 THEN Rat(left.v, 1)
                                  ELSE Frac(left.v * td * denom
                                              + (right.v - left.v) * num,
                                            td * denom)]
         IN  LinSweep(input, n, i + 1, j2, Append(out, pt))

\* resample(input, n), two-pointer version.
resample_twoPointer(input, n) ==
    LET length == Len(input)
    IN  IF length = 0 \/ n = 0 THEN <<>>
        ELSE IF length = n THEN [i \in 1..n |-> LinCopy(input[i])]
        ELSE IF n = 1 THEN <<LinCopy(input[((length - 1) \div 2) + 1])>>
        ELSE IF input[length].t - input[1].t = 0
             THEN [i \in 1..n |-> LinCopy(input[1])]
        ELSE Append(LinSweep(input, n, 1, 0, <<LinCopy(input[1])>>),
                    LinCopy(input[length]))

LinInit ==
    /\ lin_in \in SeqsUpTo(LinPoints, MaxPts)
    /\ lin_n \in 0..MaxN
    /\ lin_bs = NotRun
    /\ lin_tp = NotRun

LinParked ==
    /\ lin_in = <<>>
    /\ lin_n = 0
    /\ lin_bs = NotRun
    /\ lin_tp = NotRun

LinResampleBS ==
    /\ ~lin_bs.done
    /\ lin_bs' = [done |-> TRUE, out |-> resample_binarySearch(lin_in, lin_n)]
    /\ UNCHANGED <<lin_in, lin_n, lin_tp, notLin>>

LinResampleTP ==
    /\ ~lin_tp.done
    /\ lin_tp' = [done |-> TRUE, out |-> resample_twoPointer(lin_in, lin_n)]
    /\ UNCHANGED <<lin_in, lin_n, lin_bs, notLin>>

LinNext == LinResampleBS \/ LinResampleTP

(***************************************************************************)
(* EDF writer loop (components/record/utils.ts, startEDFWriterLoop)        *)
(* valuesRef holds one CircularBuffer<Value> per signal; startStreaming    *)
(* pushes the samples a driver yields, the interval callback builds one    *)
(* record per tick.  Time is in model units; EPOCH_DURATION_MS is scaled.  *)
(***************************************************************************)
\* Two signals, each with its buffer in valuesRef.current.
EdfChannels == {1, 2}

EdfClock == 0..MaxT

\* at(i): random access relative to the oldest element.
CircularBuffer_at_ignoresHead(b, i) == b.data[i % b.capacity_]

CircularBuffer_at(b, i) == b.data[(b.head + i) % b.capacity_]

\* The scan newest -> oldest that stops at the first sample older than
\* fromTime; out is in scan order.
RECURSIVE EdfScan(_, _, _, _)
EdfScan(b, i, fromTime, out) ==
    IF i < 0 THEN out
    ELSE LET v == CircularBuffer_at(b, i)
         IN  IF v.t >= fromTime
             THEN EdfScan(b, i - 1, fromTime, Append(out, v))
             ELSE out

\* out.reverse()
Reverse(s) == [i \in 1..Len(s) |-> s[Len(s) + 1 - i]]

\* recentPerSignal for one buffer.
EdfRecent(b, fromTime) ==
    IF b.size_ = 0 THEN <<>>
    ELSE Reverse(EdfScan(b, b.size_ - 1, fromTime, <<>>))

\* resampled for one signal: zeros, or the values of resample(vals, samples).
EdfResampled(vals, samples) ==
    IF Len(vals) = 0 THEN [k \in 1..samples |-> Rat(0, 1)]
    ELSE LET r == resample_twoPointer(vals, samples)
         IN  [k \in 1..Len(r) |-> r[k].v]

\* The record handed to edfWriter.writeRecord at a tick with Date.now() = now.
EdfRecord(bufs, spr, now) ==
    LET fromTime == now - EPOCH_DURATION_MS
    IN  [i \in EdfChannels |-> EdfResampled(EdfRecent(bufs[i], fromTime), spr[i])]

NoTick == [fired |-> FALSE, fromTime |-> 0, record |-> <<>>, bufs |-> <<>>]

EdfInit ==
    /\ edf_spr \in [EdfChannels -> 1..MaxSpr]
    /\ edf_bufs = [i \in EdfChannels |-> CircularBuffer_new(EdfCap)]
    /\ edf_tick = NoTick
    /\ edf_now = 0
    /\ edf_npush = 0

EdfParked ==
    /\ edf_spr = [i \in EdfChannels |-> 1]
    /\ edf_bufs = [i \in EdfChannels |-> CircularBuffer_new(EdfCap)]
    /\ edf_tick = NoTick
    /\ edf_now = 0
    /\ edf_npush = 0

\* startStreaming's buf.push(next[i]) for one sample of one signal.  The
\* record of a tick is local to the callback: by the next push it has been
\* written out and is gone.
EdfPush ==
    /\ edf_npush < MaxEdfPush
    /\ \E i \in EdfChannels, p \in LinPoints :
           edf_bufs' = [edf_bufs EXCEPT ![i] = CircularBuffer_push(@, p).buf]
    /\ edf_npush' = edf_npush + 1
    /\ edf_tick' = NoTick
    /\ UNCHANGED <<edf_spr, edf_now, notEdf>>

\* One firing of the interval callback.
EdfTick ==
    /\ \E now \in EdfClock :
           /\ now >= edf_now
           /\ edf_now' = now
           /\ edf_tick' = [fired    |-> TRUE,
                           fromTime |-> now - EPOCH_DURATION_MS,
                           record   |-> EdfRecord(edf_bufs, edf_spr, now),
                           bufs     |-> edf_bufs]
    /\ UNCHANGED <<edf_spr, edf_bufs, edf_npush, notEdf>>

EdfNext == EdfPush \/ EdfTick

(***************************************************************************)
(* LTTB downsampling (lib/resampling/lttb.ts)                              *)
(* The series is a pair of parallel arrays.  bucketSize is the fraction    *)
(* (length - 2) / (n - 2); floors of its multiples and the comparison of   *)
(* triangle areas are computed exactly in integers.                        *)
(***************************************************************************)
LttbDeltas == {0 - 1, 0, 1}

RECURSIVE LttbCumul(_, _)
LttbCumul(d, i) == IF i = 0 THEN 0 ELSE LttbCumul(d, i - 1) + d[i]

\* Series of k points: the first timestamp is 0, each later one differs from
\* its predecessor by a delta (so unsorted series occur too).
LttbSeries(k) ==
    {[timestamps |-> [i \in 1..k |-> LttbCumul(d, i)], values |-> ys] :
        d \in {dd \in [1..k -> LttbDeltas] : k = 0 \/ dd[1] = 0},
        ys \in [1..k -> LinValues]}

\* arr[i] of a JavaScript array (undefined outside 0 .. length - 1).
At(arr, i) == IF i >= 0 /\ i < Len(arr) THEN arr[i + 1] ELSE Undefined

Abs(x) == IF x < 0 THEN 0 - x ELSE x

\* Math.floor(i * bucketSize)
LttbFloor(i, length, n) == (i * (length - 2)) \div (n - 2)

\* for (j = from; j < to; j++) sum += arr[j]
RECURSIVE LttbSum(_, _, _)
LttbSum(arr, from, to) ==
    IF from >= to THEN 0 ELSE At(arr, from) + LttbSum(arr, from + 1, to)

\* avgCount times the triangle area of (a, j, average of the next bucket);
\* sx / cnt and sy / cnt are avgX and avgY.
LttbArea(ts, ys, a, j, sx, sy, cnt) ==
    Abs((At(ts, a) * cnt - sx) * (At(ys, j) - At(ys, a))
          - (At(ts, a) - At(ts, j)) * (sy - At(ys, a) * cnt))

\* The scan of one bucket for the largest area; returns maxIndex.
RECURSIVE LttbArgMax(_, _, _, _, _, _, _, _, _, _)
LttbArgMax(ts, ys, a, j, bucketEnd, sx, sy, cnt, maxArea, maxIndex) ==
    IF j >= bucketEnd THEN maxIndex
    ELSE LET area == LttbArea(ts, ys, a, j, sx, sy, cnt)
         IN  IF area > maxArea
             THEN LttbArgMax(ts, ys, a, j + 1, bucketEnd, sx, sy, cnt, area, j)
             ELSE LttbArgMax(ts, ys, a, j + 1, bucketEnd, sx, sy, cnt,
                             maxArea, maxIndex)

\* A bucket whose range starts one index too early (at the previous pick's
\* own bucket boundary).
LttbBucketStart_offByOne(i, length, n) == LttbFloor(i, length, n)

LttbBucketStart(i, length, n) == LttbFloor(i, length, n) + 1

LttbBucketEnd(i, length, n) == Min2(LttbFloor(i + 1, length, n) + 1, length)

\* The bucket loop for i .. n - 3; picks holds the indices selected so far.
RECURSIVE LttbLoop(_, _, _, _, _, _)
LttbLoop(ts, ys, n, i, a, picks) ==
    IF i >= n - 2 THEN picks
    ELSE LET length     == Len(ts)
             rangeStart == LttbFloor(i + 1, length, n) + 1
             rangeEnd   == Min2(LttbFloor(i + 2, length, n) + 1, length)
             avgCount   == Max2(rangeEnd - rangeStart, 1)
             sx         == LttbSum(ts, rangeStart, rangeEnd)
             sy         == LttbSum(ys, rangeStart, rangeEnd)
             maxIndex   == LttbArgMax(ts, ys, a,
                                      LttbBucketStart(i, length, n),
                                      LttbBucketEnd(i, length, n),
                                      sx, sy, avgCount, 0 - 1, 0 - 1)
         IN  LttbLoop(ts, ys, n, i + 1, maxIndex, Append(picks, maxIndex))

\* An lttb that leaves the last output slot as the last bucket's pick.
lttb_noLastPoint(values, n) ==
    LET ts     == values.timestamps
        ys     == values.values
        length == Len(ts)
    IN  IF n >= length \/ n < 3
        THEN [same |-> TRUE, timestamps |-> ts, values |-> ys, picks |-> <<>>]
        ELSE LET mid   == LttbLoop(ts, ys, n, 0, 0, <<>>)
                 picks == <<0>> \o mid \o <<mid[Len(mid)]>>
             IN  [same       |-> FALSE,
                  timestamps |-> [k \in 1..n |-> At(ts, picks[k])],
                  values     |-> [k \in 1..n |-> At(ys, picks[k])],
                  picks      |-> picks]

\* lttb(values, n); picks records the input index behind each output slot.
lttb(values, n) ==
    LET ts     == values.timestamps
        ys     == values.values
        length == Len(ts)
    IN  IF n >= length \/ n < 3
        THEN [same |-> TRUE, timestamps |-> ts, values |-> ys, picks |-> <<>>]
        ELSE LET picks == <<0>> \o LttbLoop(ts, ys, n, 0, 0, <<>>)
                               \o <<length - 1>>
             IN  [same       |-> FALSE,
                  timestamps |-> [k \in 1..n |-> At(ts, picks[k])],
                  values     |-> [k \in 1..n |-> At(ys, picks[k])],
                  picks      |-> picks]

LttbNotRun == [done |-> FALSE, res |-> <<>>]

LttbInit ==
    /\ ltb_in \in UNION {LttbSeries(k) : k \in 0..MaxLttbLen}
    /\ ltb_n \in 0..MaxLttbLen
    /\ ltb_out = LttbNotRun

LttbParked ==
    /\ ltb_in = [timestamps |-> <<>>, values |-> <<>>]
    /\ ltb_n = 0
    /\ ltb_out = LttbNotRun

LttbResample ==
    /\ ~ltb_out.done
    /\ ltb_out' = [done |-> TRUE, res |-> lttb(ltb_in, ltb_n)]
    /\ UNCHANGED <<ltb_in, ltb_n, notLttb>>

LttbNext == LttbResample

(***************************************************************************)
(* deriveHRV (lib/derivations/hrv.ts) and the window GenericHRDriver       *)
(* passes to it.  RR intervals arrive in seconds; here an interval is its  *)
(* length in tenths of a millisecond, so that Math.round(rr * 1000) has    *)
(* something to round.  calculateRMSSD is kept as the mean of the squared  *)
(* successive differences (its result is the square root of that).         *)
(***************************************************************************)
\* 299.4, 299.5, 549.5, 550.5, 2000.4 and 2000.5 ms.
RRInputs == {2994, 2995, 5495, 5505, 20004, 20005}

RRPairable == {2995, 5495, 5505}

\* m.rrIntervals: absent, empty, one interval, or two intervals.
RRLists ==
    {[has |-> FALSE, list |-> <<>>], [has |-> TRUE, list |-> <<>>]}
        \cup {[has |-> TRUE, list |-> <<a>>] : a \in RRInputs}
        \cup {[has |-> TRUE, list |-> <<a, b>>] : a \in RRPairable, b \in RRPairable}

\* The default of the window parameter.
DefaultWindow == 30

NumWindow(v) == [nan |-> FALSE, v |-> v]

NaNWindow == [nan |-> TRUE, v |-> 0]

\* Number(config.hrvWindow) in GenericHRDriver.configure: the field may be
\* missing from the submitted configuration.
ConfigWindows == {[given |-> FALSE, v |-> 0]} \cup {[given |-> TRUE, v |-> w] : w \in 0..MaxW}

ToNumber(c) == IF c.given THEN NumWindow(c.v) ELSE NaNWindow

\* The window deriveHRV runs with: the driver's number, or the default when
\* a caller leaves the argument out.
HrvWindows == {ToNumber(c) : c \in ConfigWindows} \cup {NumWindow(DefaultWindow)}

\* Math.round(rr * 1000) for a non-negative interval given in tenths of ms.
RoundMs(rr) == (rr + 5) \div 10

\* rrBuffer.length >= window (false when window is NaN).
LengthReaches(len, w) == ~w.nan /\ len >= w.v

\* rrBuffer.shift()
Shift(s) == IF Len(s) = 0 THEN s ELSE Tail(s)

\* The loop over m.rrIntervals with a jump test against the oldest value of
\* the buffer instead of the newest.
RECURSIVE HrvFeed_prevIsOldest(_, _, _, _)
HrvFeed_prevIsOldest(st, rrs, k, w) ==
    IF k > Len(rrs) THEN st
    ELSE LET rrMs == RoundMs(rrs[k])
             rrb  == st.buf
             ok   == /\ ~(rrMs < 300 \/ rrMs > 2000)
                     /\ ~(Len(rrb) > 0 /\ Abs(rrMs - rrb[1]) > 250)
             kept == IF LengthReaches(Len(rrb), w) THEN Shift(rrb) ELSE rrb
             nbuf == IF ok THEN Append(kept, rrMs) ELSE rrb
             e    == [rrMs |-> rrMs, accepted |-> ok, last |-> st.last,
                      before |-> rrb, after |-> nbuf]
         IN  HrvFeed_prevIsOldest([buf  |-> nbuf,
                                   last |-> IF ok THEN rrMs ELSE st.last,
                                   log  |-> Append(st.log, e)], rrs, k + 1, w)

\* The loop over m.rrIntervals with a buffer that starts over from an
\* in-range value rejected for its jump.
RECURSIVE HrvFeed_restartsOnJump(_, _, _, _)
HrvFeed_restartsOnJump(st, rrs, k, w) ==
    IF k > Len(rrs) THEN st
    ELSE LET rrMs == RoundMs(rrs[k])
             rrb  == st.buf
             inr  == ~(rrMs < 300 \/ rrMs > 2000)
             ok   == /\ inr
                     /\ ~(Len(rrb) > 0 /\ Abs(rrMs - rrb[Len(rrb)]) > 250)
             kept == IF LengthReaches(Len(rrb), w) THEN Shift(rrb) ELSE rrb
             nbuf == IF ok THEN Append(kept, rrMs)
                     ELSE IF inr THEN <<rrMs>> ELSE rrb
             e    == [rrMs |-> rrMs, accepted |-> inr, last |-> st.last,
                      before |-> rrb, after |-> nbuf]
         IN  HrvFeed_restartsOnJump([buf  |-> nbuf,
                                     last |-> IF inr THEN rrMs ELSE st.last,
                                     log  |-> Append(st.log, e)], rrs, k + 1, w)

\* The loop over m.rrIntervals.  st.buf is rrBuffer; st.last (the value
\* accepted most recently, 0 when none) and st.log (one entry per interval)
\* are history kept for the properties.
RECURSIVE HrvFeed(_, _, _, _)
HrvFeed(st, rrs, k, w) ==
    IF k > Len(rrs) THEN st
    ELSE LET rrMs == RoundMs(rrs[k])
             rrb  == st.buf
             ok   == /\ ~(rrMs < 300 \/ rrMs > 2000)
                     /\ ~(Len(rrb) > 0 /\ Abs(rrMs - rrb[Len(rrb)]) > 250)
             kept == IF LengthReaches(Len(rrb), w) THEN Shift(rrb) ELSE rrb
             nbuf == IF ok THEN Append(kept, rrMs) ELSE rrb
             e    == [rrMs |-> rrMs, accepted |-> ok, last |-> st.last,
                      before |-> rrb, after |-> nbuf]
         IN  HrvFeed([buf  |-> nbuf,
                      last |-> IF ok THEN rrMs ELSE st.last,
                      log  |-> Append(st.log, e)], rrs, k + 1, w)

RECURSIVE SumSqDiffs(_, _)
SumSqDiffs(rr, i) ==
    IF i > Len(rr) THEN 0
    ELSE (rr[i] - rr[i - 1]) * (rr[i] - rr[i - 1]) + SumSqDiffs(rr, i + 1)

NoHrv == [defined |-> FALSE, meanSq |-> Rat(0, 1)]

\* A calculateRMSSD that wants three values before it answers.
calculateRMSSD_needsThree(rr) ==
    IF Len(rr) < 3 THEN NoHrv
    ELSE [defined |-> TRUE, meanSq |-> Rat(SumSqDiffs(rr, 2), Len(rr) - 1)]

\* calculateRMSSD(rr): undefined below two values, else sqrt(meanSq).
calculateRMSSD(rr) ==
    IF Len(rr) < 2 THEN NoHrv
    ELSE [defined |-> TRUE, meanSq |-> Rat(SumSqDiffs(rr, 2), Len(rr) - 1)]

HrvInit ==
    /\ hrv_window \in HrvWindows
    /\ hrv_buf = <<>>
    /\ hrv_last = 0
    /\ hrv_log = <<>>
    /\ hrv_in = <<>>
    /\ hrv_out = <<>>
    /\ hrv_done = FALSE

HrvParked ==
    /\ hrv_window = NumWindow(DefaultWindow)
    /\ hrv_buf = <<>>
    /\ hrv_last = 0
    /\ hrv_log = <<>>
    /\ hrv_in = <<>>
    /\ hrv_out = <<>>
    /\ hrv_done = FALSE

\* One iteration of the for-await loop: take a measurement, feed its
\* intervals, yield it with hrv.
HrvTick ==
    /\ ~hrv_done
    /\ Len(hrv_in) < MaxHrvTicks
    /\ \E rr \in RRLists :
           LET m  == [id |-> Len(hrv_in) + 1, rrIntervals |-> rr]
               nacc == IF Len(hrv_out) = 0 THEN 0
                       ELSE hrv_out[Len(hrv_out)].nacc
               st == IF rr.has /\ Len(rr.list) > 0
                     THEN HrvFeed([buf |-> hrv_buf, last |-> hrv_last,
                                   log |-> <<>>], rr.list, 1, hrv_window)
                     ELSE [buf |-> hrv_buf, last |-> hrv_last, log |-> <<>>]
           IN  /\ hrv_in' = Append(hrv_in, m)
               /\ hrv_buf' = st.buf
               /\ hrv_last' = st.last
               /\ hrv_log' = st.log
               /\ hrv_out' = Append(hrv_out,
                                    [m |-> m, hrv |-> calculateRMSSD(st.buf),
                                     window |-> st.buf,
                                     nacc |-> nacc + Cardinality(
                                         {k \in 1..Len(st.log) :
                                              st.log[k].accepted})])
    /\ UNCHANGED <<hrv_window, hrv_done, notHrv>>

\* The source stream ends: the generator returns without yielding.
HrvEnd ==
    /\ ~hrv_done
    /\ hrv_done' = TRUE
    /\ UNCHANGED <<hrv_window, hrv_buf, hrv_last, hrv_log, hrv_in, hrv_out,
                   notHrv>>

HrvNext == HrvTick \/ HrvEnd

(***************************************************************************)
(* FIRFilter (the FIR engine; runMultiFilter and runMultiFilterReverse     *)
(* come from the filters' utils module, whose file is not among the        *)
(* sources: they are modelled as the loops the specification describes).   *)
(* Taps and samples are integers, so products and sums are exact.          *)
(***************************************************************************)
FirTaps == {0 - 1, 2}

FirSamples == {1, 2}

FirFilters == UNION {[1..k -> FirTaps] : k \in 1..MaxTaps}

FirBlocks == UNION {[1..k -> FirSamples] : k \in 0..MaxBlock}

\* initZero(cnt): cnt zeros and pointer 0; buf is indexed from 0.
initZero(cnt) == [buf |-> [i \in 0..(cnt - 1) |-> 0], pointer |-> 0]

StateLen(d) == Cardinality(DOMAIN d.buf)

RECURSIVE FirDot(_, _, _, _)
FirDot(f, d, i, len) ==
    IF i >= len THEN 0
    ELSE f[i + 1] * d.buf[(d.pointer + i) % len] + FirDot(f, d, i + 1, len)

\* A doStep whose sum also takes the last tap, on the sample that the new
\* input replaces.
doStep_withLastTap(f, input, d) ==
    LET len == StateLen(d)
    IN  IF len = 0
        THEN [out |-> IF Len(f) # 0 THEN input * f[1] ELSE 0, z |-> d]
        ELSE LET d1 == [d EXCEPT !.buf[d.pointer] = input]
             IN  [out |-> FirDot(f, d1, 0, len) + f[len + 1] * d.buf[d.pointer],
                  z   |-> [d1 EXCEPT !.pointer = (d.pointer + 1) % len]]

\* doStep(input, d): returns the output and the state d as it is afterwards.
doStep(f, input, d) ==
    LET len == StateLen(d)
    IN  IF len = 0
        THEN [out |-> IF Len(f) # 0 THEN input * f[1] ELSE 0, z |-> d]
        ELSE LET d1 == [d EXCEPT !.buf[d.pointer] = input]
             IN  [out |-> FirDot(f, d1, 0, len),
                  z   |-> [d1 EXCEPT !.pointer = (d.pointer + 1) % len]]

\* runMultiFilter(input, [d], doStepWrapped): one doStep per sample, first
\* to last, on the state handed in.
RECURSIVE runMultiFilter(_, _, _, _, _)
runMultiFilter(f, input, d, k, outs) ==
    IF k > Len(input) THEN [out |-> outs, z |-> d]
    ELSE LET r == doStep(f, input[k], d)
         IN  runMultiFilter(f, input, r.z, k + 1, Append(outs, r.out))

\* runMultiFilterReverse: one doStep per sample, last to first; out[i] is
\* the output for input[i].
RECURSIVE runMultiFilterReverse(_, _, _, _, _)
runMultiFilterReverse(f, input, d, k, outs) ==
    IF k < 1 THEN [out |-> outs, z |-> d]
    ELSE LET r == doStep(f, input[k], d)
         IN  runMultiFilterReverse(f, input, r.z, k - 1, <<r.out>> \o outs)

\* A simulation that runs on the instance's own state.
calcInputResponse_onLiveState(f, z, input) == runMultiFilter(f, input, z, 1, <<>>)

\* calcInputResponse(input): runs on a fresh zeroed state; this.z stays.
calcInputResponse(f, z, input) ==
    LET temp == initZero(Len(f) - 1)
    IN  [out |-> runMultiFilter(f, input, temp, 1, <<>>).out, z |-> z]

FIRFilter_simulate(f, z, input) == calcInputResponse(f, z, input)

FIRFilter_singleStep(f, z, input) == doStep(f, input, z)

FIRFilter_multiStep(f, z, input) == runMultiFilter(f, input, z, 1, <<>>)

FIRFilter_filtfilt(f, z, input) ==
    LET forward == runMultiFilter(f, input, z, 1, <<>>)
    IN  runMultiFilterReverse(f, forward.out, forward.z, Len(forward.out), <<>>)

FIRFilter_reinit(f) == initZero(Len(f) - 1)

FirNoCall == [op |-> "new", out |-> <<>>, twinOut |-> <<>>, freshOut |-> <<>>]

\* new FIRFilter(filter), twice with the same taps: fir_z is the instance
\* under test, fir_twin one that gets the same calls except simulate.
FirInit ==
    /\ fir_f \in FirFilters
    /\ fir_z = initZero(Len(fir_f) - 1)
    /\ fir_twin = initZero(Len(fir_f) - 1)
    /\ fir_last = FirNoCall
    /\ fir_sims = 0
    /\ fir_nops = 0

FirParked ==
    /\ fir_f = <<1>>
    /\ fir_z = initZero(0)
    /\ fir_twin = initZero(0)
    /\ fir_last = FirNoCall
    /\ fir_sims = 0
    /\ fir_nops = 0

\* A state-changing call made on both instances.
FirBoth(op, r, t) ==
    /\ fir_z' = r.z
    /\ fir_twin' = t.z
    /\ fir_last' = [op |-> op, out |-> r.out, twinOut |-> t.out,
                    freshOut |-> <<>>]
    /\ fir_nops' = fir_nops + 1
    /\ UNCHANGED <<fir_f, fir_sims, notFir>>

FirSingleStep ==
    /\ fir_nops < MaxFirOps
    /\ \E x \in FirSamples :
           LET r == FIRFilter_singleStep(fir_f, fir_z, x)
               t == FIRFilter_singleStep(fir_f, fir_twin, x)
           IN  FirBoth("singleStep", [out |-> <<r.out>>, z |-> r.z],
                       [out |-> <<t.out>>, z |-> t.z])

FirMultiStep ==
    /\ fir_nops < MaxFirOps
    /\ \E xs \in FirBlocks :
           FirBoth("multiStep", FIRFilter_multiStep(fir_f, fir_z, xs),
                   FIRFilter_multiStep(fir_f, fir_twin, xs))

FirFiltfilt ==
    /\ fir_nops < MaxFirOps
    /\ \E xs \in FirBlocks :
           FirBoth("filtfilt", FIRFilter_filtfilt(fir_f, fir_z, xs),
                   FIRFilter_filtfilt(fir_f, fir_twin, xs))

FirReinit ==
    /\ fir_nops < MaxFirOps
    /\ FirBoth("reinit", [out |-> <<>>, z |-> FIRFilter_reinit(fir_f)],
               [out |-> <<>>, z |-> FIRFilter_reinit(fir_f)])

\* simulate(xs) on the instance under test only; freshOut is what a newly
\* constructed filter with the same taps returns from multiStep(xs).
FirSimulate ==
    /\ fir_nops < MaxFirOps
    /\ \E xs \in FirBlocks :
           LET r == FIRFilter_simulate(fir_f, fir_z, xs)
               n == FIRFilter_multiStep(fir_f, initZero(Len(fir_f) - 1), xs)
           IN  /\ fir_z' = r.z
               /\ fir_last' = [op |-> "simulate", out |-> r.out,
                               twinOut |-> <<>>, freshOut |-> n.out]
    /\ fir_sims' = fir_sims + 1
    /\ fir_nops' = fir_nops + 1
    /\ UNCHANGED <<fir_f, fir_twin, notFir>>

FirNext ==
    \/ FirSingleStep
    \/ FirMultiStep
    \/ FirFiltfilt
    \/ FirReinit
    \/ FirSimulate

(***************************************************************************)
(* SnoreMicDriver (lib/drivers/snore-mic.ts): the worklet message handler, *)
(* wallclockFromAudioTime and the values() generator.  The wall-clock      *)
(* estimate computed from the clocks is an input of each message.          *)
(***************************************************************************)
\* outputRate, in Hz.
SnOutputRate == 500

\* dtMs = 1000 / outputRate
SnDtMs == 1000 \div SnOutputRate

\* The estimate ms that wallclockFromAudioTime derives from Date.now(),
\* performance.now(), getOutputTimestamp() and the audio time.
SnEstimates == 0..MaxMs

NoWallTs == [def |-> FALSE, ms |-> 0]

\* wallclockFromAudioTime: clamp the estimate to lastWallTsMs, remember it.
wallclockFromAudioTime(last, est) ==
    LET ms == IF last.def /\ est < last.ms THEN last.ms ELSE est
    IN  [ms |-> ms, last |-> [def |-> TRUE, ms |-> ms]]

\* The timestamps of a chunk of n values starting at ms0.
SnChunk(ms0, n) == [i \in 1..n |-> ms0 + (i - 1) * SnDtMs]

SnInit ==
    /\ sn_running = TRUE
    /\ sn_last = NoWallTs
    /\ sn_queue = <<>>
    /\ sn_cur = <<>>
    /\ sn_emitted = <<>>
    /\ sn_nmsg = 0

SnParked ==
    /\ sn_running = FALSE
    /\ sn_last = NoWallTs
    /\ sn_queue = <<>>
    /\ sn_cur = <<>>
    /\ sn_emitted = <<>>
    /\ sn_nmsg = 0

\* port.onmessage with { audioTime0, values }: one chunk is queued.
SnMessageChunk ==
    /\ sn_nmsg < MaxSnMsgs
    /\ \E est \in SnEstimates, n \in 0..MaxChunk :
           IF ~sn_running
           THEN UNCHANGED <<sn_last, sn_queue>>
           ELSE LET w == wallclockFromAudioTime(sn_last, est)
                IN  /\ sn_last' = w.last
                    /\ sn_queue' = Append(sn_queue, SnChunk(w.ms, n))
    /\ sn_nmsg' = sn_nmsg + 1
    /\ UNCHANGED <<sn_running, sn_cur, sn_emitted, notSn>>

\* port.onmessage with { audioTime, value }: a chunk of one is queued.
SnMessageSingle ==
    /\ sn_nmsg < MaxSnMsgs
    /\ \E est \in SnEstimates :
           IF ~sn_running
           THEN UNCHANGED <<sn_last, sn_queue>>
           ELSE LET w == wallclockFromAudioTime(sn_last, est)
                IN  /\ sn_last' = w.last
                    /\ sn_queue' = Append(sn_queue, <<w.ms>>)
    /\ sn_nmsg' = sn_nmsg + 1
    /\ UNCHANGED <<sn_running, sn_cur, sn_emitted, notSn>>

\* values(): the for-await loop takes the next chunk from the queue.
SnTakeChunk ==
    /\ sn_running
    /\ sn_cur = <<>>
    /\ sn_queue # <<>>
    /\ sn_cur' = Head(sn_queue)
    /\ sn_queue' = Tail(sn_queue)
    /\ UNCHANGED <<sn_running, sn_last, sn_emitted, sn_nmsg, notSn>>

\* values(): yield [v] for the next value of the chunk in hand.
SnYield ==
    /\ sn_cur # <<>>
    /\ sn_emitted' = Append(sn_emitted, Head(sn_cur))
    /\ sn_cur' = Tail(sn_cur)
    /\ UNCHANGED <<sn_running, sn_last, sn_queue, sn_nmsg, notSn>>

\* close(): stop, forget the anchors, close the queue (what it still holds
\* is not delivered).
SnClose ==
    /\ sn_running
    /\ sn_running' = FALSE
    /\ sn_last' = NoWallTs
    /\ sn_queue' = <<>>
    /\ UNCHANGED <<sn_cur, sn_emitted, sn_nmsg, notSn>>

SnNext ==
    \/ SnMessageChunk
    \/ SnMessageSingle
    \/ SnTakeChunk
    \/ SnYield
    \/ SnClose

(***************************************************************************)
(* startStreaming (components/record/utils.ts): the loop over a driver's   *)
(* values() and its catch clause.  An error message is a sequence of       *)
(* words; a thrown value is an Error with a message or some other value.   *)
(***************************************************************************)
\* The error Channel.close() rejects with when the caller gives none.
QueueClosed == [isError |-> TRUE, message |-> <<"Queue", "closed">>]

\* Values a driver's stream can fail with for a reason other than shutdown.
SsFailures ==
    {[isError |-> TRUE, message |-> <<"unexpected", "error">>],
     [isError |-> TRUE, message |-> <<"device", "closed", "the", "connection">>],
     [isError |-> TRUE, message |-> <<>>],
     [isError |-> FALSE, message |-> <<"timeout">>]}

\* err.message.includes("closed"), word by word.
IncludesClosed(message) == \E k \in 1..Len(message) : message[k] = "closed"

\* The catch clause: whether onError is called, and with what.
SsCatch(err, hasOnError) ==
    IF ~(err.isError /\ IncludesClosed(err.message)) /\ hasOnError
    THEN <<[isError |-> TRUE, message |-> err.message]>>
    ELSE <<>>

SsSamples == {[t |-> 0, v |-> 1], [t |-> 1, v |-> 3]}

\* What one iteration of values() yields: a value per signal of the driver.
SsYields == UNION {[1..k -> SsSamples] : k \in 1..2}

\* The loop body: push next[i] to the buffer of signal startIndex + i,
\* skipping signals without a buffer.  bufs is indexed from 0.
RECURSIVE SsStore(_, _, _, _)
SsStore(bufs, next, i, startIndex) ==
    IF i >= Len(next) THEN bufs
    ELSE LET signalIndex == startIndex + i
         IN  IF signalIndex \notin DOMAIN bufs
             THEN SsStore(bufs, next, i + 1, startIndex)
             ELSE SsStore([bufs EXCEPT ![signalIndex] =
                               CircularBuffer_push(@, next[i + 1]).buf],
                          next, i + 1, startIndex)

SsInit ==
    /\ ss_start \in 0..1
    /\ ss_hasOnError \in BOOLEAN
    /\ ss_bufs = [i \in 0..1 |-> CircularBuffer_new(EdfCap)]
    /\ ss_state = "streaming"
    /\ ss_cause = "none"
    /\ ss_onError = <<>>
    /\ ss_nyield = 0

SsParked ==
    /\ ss_start = 0
    /\ ss_hasOnError = FALSE
    /\ ss_bufs = [i \in 0..1 |-> CircularBuffer_new(EdfCap)]
    /\ ss_state = "streaming"
    /\ ss_cause = "none"
    /\ ss_onError = <<>>
    /\ ss_nyield = 0

\* The driver yields; the loop body stores the values.
SsYield ==
    /\ ss_state = "streaming"
    /\ ss_nyield < MaxSsYields
    /\ \E next \in SsYields : ss_bufs' = SsStore(ss_bufs, next, 0, ss_start)
    /\ ss_nyield' = ss_nyield + 1
    /\ UNCHANGED <<ss_start, ss_hasOnError, ss_state, ss_cause, ss_onError,
                   notSs>>

\* The driver's stream finishes without an error.
SsEnd ==
    /\ ss_state = "streaming"
    /\ ss_state' = "ended"
    /\ ss_cause' = "end"
    /\ UNCHANGED <<ss_start, ss_hasOnError, ss_bufs, ss_onError, ss_nyield,
                   notSs>>

\* The driver is closed: its queue is closed with the default error, which
\* the stream rethrows.
SsShutdown ==
    /\ ss_state = "streaming"
    /\ ss_state' = "caught"
    /\ ss_cause' = "shutdown"
    /\ ss_onError' = SsCatch(QueueClosed, ss_hasOnError)
    /\ UNCHANGED <<ss_start, ss_hasOnError, ss_bufs, ss_nyield, notSs>>

\* The driver's stream fails.
SsFail ==
    /\ ss_state = "streaming"
    /\ ss_state' = "caught"
    /\ ss_cause' = "failure"
    /\ \E err \in SsFailures : ss_onError' = SsCatch(err, ss_hasOnError)
    /\ UNCHANGED <<ss_start, ss_hasOnError, ss_bufs, ss_nyield, notSs>>

SsNext == SsYield \/ SsEnd \/ SsShutdown \/ SsFail

(***************************************************************************)
(* IIR coefficient designers and calcCoeffs (lib/filters/iir-coeffs.ts)    *)
(* The trigonometry is not evaluated: a set of coefficients is the         *)
(* designer that built it together with the parameters that designer read, *)
(* so equal records stand for equal numbers.  Fs, gain and oneDb only      *)
(* enter the arithmetic and are left out of the parameter object.  The     *)
(* characteristic tables are looked up as opaque non-zero numbers.         *)
(***************************************************************************)
\* A numeric property of a parameter object: absent, or a number that is
\* zero or not; v tells non-zero numbers apart.
Absent == [def |-> FALSE, zero |-> FALSE, v |-> <<>>]

Num(x) == [def |-> TRUE, zero |-> (x = 0), v |-> <<x>>]

\* A number computed per stage (from a table or a closed formula); never 0.
StageNum(what, characteristic, order, i) ==
    [def |-> TRUE, zero |-> FALSE, v |-> <<what, characteristic, order, i>>]

\* !x for a numeric property.
Falsy(x) == ~x.def \/ x.zero

\* Math.min(params.order ?? 0, 12)
MaxStages == 12

IirBehaviors ==
    {"lowpass", "highpass", "bandpass", "bandstop", "allpass", "peak",
     "lowshelf", "highshelf", "lowpassMZ", "highpassBT", "lowpassBT"}

IirCharacteristics == {"butterworth", "bessel", "tschebyscheff1"}

IirOrders == (0..MaxOrder) \cup {MaxStages, MaxStages + 1, 40}

\* The parameter objects a caller hands to a single designer.
IirDirectParams ==
    [Fc : {<<>>}, Q : {Absent, Num(0), Num(2)}, BW : {Absent, Num(0), Num(1)},
     preGain : BOOLEAN, as : {Absent}, bs : {Absent}, hasOrder : {FALSE},
     order : {0}, transform : {"undefined"}, behavior : {"undefined"},
     characteristic : {"undefined"}]

\* The parameter objects a caller hands to calcCoeffs.
IirCascadeParams ==
    [Fc : {<<>>}, Q : {Absent}, BW : {Absent, Num(0), Num(1)},
     preGain : {FALSE}, as : {Absent}, bs : {Absent}, hasOrder : BOOLEAN,
     order : IirOrders, transform : {"undefined", "matchedZ", "bilinear"},
     behavior : IirBehaviors \cup {"notch"},
     characteristic : IirCharacteristics \cup {"undefined"}]

IirThrow(p, e) == [threw |-> TRUE, err |-> e, coeffs |-> <<>>, params |-> p]

\* The FilterCoeffs a designer returns for the parameters it read.
IirCoeffs(p, kind) ==
    [threw |-> FALSE, err |-> "", coeffs |-> <<kind, p>>, params |-> p]

\* if (params.BW) delete params.BW
DeleteBW(p) == IF Falsy(p.BW) THEN p ELSE [p EXCEPT !.BW = Absent]

\* preCalc throws unless Q or BW is set; otherwise the designer goes on.
preCalc(p, kind) ==
    IF Falsy(p.Q) /\ Falsy(p.BW)
    THEN IirThrow(p, "Either Q or BW parameter is required")
    ELSE IirCoeffs(p, kind)

\* preCalcGain throws unless Q is set.
preCalcGain(p, kind) ==
    IF Falsy(p.Q)
    THEN IirThrow(p, "Q parameter is required for preCalcGain")
    ELSE IirCoeffs(p, kind)

IIRCoeffs_lowpassMZ(p) ==
    IF Falsy(p.as) \/ Falsy(p.bs)
    THEN IirThrow(p, "as and bs parameters are required for lowpassMZ")
    ELSE IirCoeffs(p, "lowpassMZ")

IIRCoeffs_lowpassBT(p) == IirCoeffs(p, "lowpassBT")

IIRCoeffs_highpassBT(p) == IirCoeffs(p, "highpassBT")

IIRCoeffs_lowpass(p) == preCalc(DeleteBW(p), "lowpass")

IIRCoeffs_highpass(p) == preCalc(DeleteBW(p), "highpass")

IIRCoeffs_allpass(p) == preCalc(p, "allpass")

IIRCoeffs_bandpass(p) == preCalc(p, "bandpass")

IIRCoeffs_bandstop(p) == preCalc(p, "bandstop")

IIRCoeffs_peak(p) == preCalcGain(p, "peak")

IIRCoeffs_lowshelf(p) == preCalcGain(DeleteBW(p), "lowshelf")

IIRCoeffs_highshelf(p) == preCalcGain(DeleteBW(p), "highshelf")

\* The fresh filterParams object of stage i, matched-Z branch.
IirMZParams(p, order, i) ==
    [Fc |-> <<>>, Q |-> Absent, BW |-> Absent, preGain |-> p.preGain,
     as |-> StageNum("as", p.characteristic, order, i),
     bs |-> StageNum("bs", p.characteristic, order, i),
     hasOrder |-> FALSE, order |-> 0, transform |-> "undefined",
     behavior |-> "undefined", characteristic |-> "undefined"]

\* The fresh filterParams object of stage i, other transforms: Fc is fd,
\* the corner frequency scaled for this stage.
IirStageParams(p, order, i) ==
    [Fc |-> <<p.characteristic, order, i, p.behavior>>,
     Q |-> StageNum("q", p.characteristic, order, i),
     BW |-> IF p.BW.def THEN p.BW ELSE Num(0),
     preGain |-> p.preGain, as |-> Absent, bs |-> Absent,
     hasOrder |-> FALSE, order |-> 0, transform |-> "undefined",
     behavior |-> "undefined", characteristic |-> "undefined"]

\* The switch on params.behavior.
IirDispatch(behavior, fp) ==
    CASE behavior = "lowpass"    -> IIRCoeffs_lowpass(fp)
      [] behavior = "highpass"   -> IIRCoeffs_highpass(fp)
      [] behavior = "bandpass"   -> IIRCoeffs_bandpass(fp)
      [] behavior = "bandstop"   -> IIRCoeffs_bandstop(fp)
      [] behavior = "allpass"    -> IIRCoeffs_allpass(fp)
      [] behavior = "peak"       -> IIRCoeffs_peak(fp)
      [] behavior = "lowshelf"   -> IIRCoeffs_lowshelf(fp)
      [] behavior = "highshelf"  -> IIRCoeffs_highshelf(fp)
      [] behavior = "lowpassMZ"  -> IIRCoeffs_lowpassMZ(fp)
      [] behavior = "highpassBT" -> IIRCoeffs_highpassBT(fp)
      [] behavior = "lowpassBT"  -> IIRCoeffs_lowpassBT(fp)
      [] OTHER -> IirThrow(fp, "Unknown filter behavior")

\* One pass of the loop body for stage i.
IirStage(p, order, i) ==
    IF p.transform = "matchedZ"
    THEN IF p.characteristic = "undefined"
         THEN IirThrow(p, "TypeError")
         ELSE IIRCoeffs_lowpassMZ(IirMZParams(p, order, i))
    ELSE IF p.characteristic = "undefined"
         THEN IirThrow(p, "Characteristic is required")
         ELSE IirDispatch(p.behavior, IirStageParams(p, order, i))

\* for (let i = 0; i < order; i++): filters is what has been pushed so far.
RECURSIVE IirLoop(_, _, _, _)
IirLoop(p, order, i, filters) ==
    IF i >= order
    THEN [threw |-> FALSE, err |-> "", coeffs |-> filters, params |-> p]
    ELSE LET r == IirStage(p, order, i)
         IN  IF r.threw THEN IirThrow(p, r.err)
             ELSE IirLoop(p, order, i + 1, Append(filters, r.coeffs))

CascadeOrder(p) == Min2(IF p.hasOrder THEN p.order ELSE 0, MaxStages)

calcCoeffs(p) == IirLoop(p, CascadeOrder(p), 0, <<>>)

IirOps == {"calcCoeffs", "lowpass", "highpass", "lowshelf", "highshelf"}

IirApply(op, p) ==
    CASE op = "calcCoeffs" -> calcCoeffs(p)
      [] op = "lowpass"    -> IIRCoeffs_lowpass(p)
      [] op = "highpass"   -> IIRCoeffs_highpass(p)
      [] op = "lowshelf"   -> IIRCoeffs_lowshelf(p)
      [] op = "highshelf"  -> IIRCoeffs_highshelf(p)

IirInit ==
    /\ iir_params \in IirDirectParams \cup IirCascadeParams
    /\ iir_orig = iir_params
    /\ iir_calls = <<>>

IirParked ==
    /\ iir_params = [Fc |-> <<>>, Q |-> Absent, BW |-> Absent,
                     preGain |-> FALSE, as |-> Absent, bs |-> Absent,
                     hasOrder |-> FALSE, order |-> 0,
                     transform |-> "undefined", behavior |-> "undefined",
                     characteristic |-> "undefined"]
    /\ iir_orig = iir_params
    /\ iir_calls = <<>>

\* One call of a designer or of calcCoeffs with the caller's object.
IirCall(op) ==
    /\ Len(iir_calls) < MaxIirCalls
    /\ LET r == IirApply(op, iir_params)
       IN  /\ iir_params' = r.params
           /\ iir_calls' = Append(iir_calls,
                  [op |-> op, threw |-> r.threw, err |-> r.err,
                   value |-> r.coeffs])
    /\ UNCHANGED <<iir_orig, notIir>>

IirCalcCoeffs == IirCall("calcCoeffs")

IirLowpass == IirCall("lowpass")

IirHighpass == IirCall("highpass")

IirLowshelf == IirCall("lowshelf")

IirHighshelf == IirCall("highshelf")

IirNext ==
    IirCalcCoeffs \/ IirLowpass \/ IirHighpass \/ IirLowshelf \/ IirHighshelf

(***************************************************************************)
(* FIRCoeffs.lowpass / highpass (lib/filters/fir-coeffs.ts)                *)
(* The windowed-sinc values are opaque integers; their normalisation by    *)
(* their sum and the inversion are exact, every tap being a fraction over  *)
(* that sum.  Arrays of length m are sequences: index i is element i + 1.  *)
(***************************************************************************)
FcRawValues == {0 - 1, 1, 2}

RECURSIVE FcSum(_)
FcSum(xs) == IF xs = <<>> THEN 0 ELSE Head(xs) + FcSum(Tail(xs))

\* Symmetric value arrays of order + 1 entries with a positive sum dc.
FcRaws(order) ==
    {r \in [1..(order + 1) -> FcRawValues] :
        /\ FcSum(r) > 0
        /\ \A i \in 1..(order + 1) : r[i] = r[order + 2 - i]}

\* calcImpulseResponse: ret[n] /= dc.
calcImpulseResponse(order, raw) ==
    [n \in 1..(order + 1) |-> Rat(raw[n], FcSum(raw))]

\* invert(h): every tap negated, then out[(out.length - 1) / 2] += 1.  For
\* an even length that index is not an integer: the statement then sets a
\* property beside the elements and no tap changes.
invert(h) ==
    LET neg == [i \in 1..Len(h) |-> Rat(0 - h[i].n, h[i].d)]
    IN  IF (Len(h) - 1) % 2 = 0 /\ Len(h) > 0
        THEN LET c == (Len(h) - 1) \div 2 + 1
             IN  [neg EXCEPT ![c] = Rat(neg[c].n + neg[c].d, neg[c].d)]
        ELSE neg

FIRCoeffs_lowpass(order, raw) == calcImpulseResponse(order, raw)

FIRCoeffs_highpass(order, raw) == invert(calcImpulseResponse(order, raw))

\* No call made yet; every result has at least one tap.
FcNotRun == <<>>

FcInit ==
    /\ fc_order \in 0..MaxFcOrder
    /\ fc_raw \in FcRaws(fc_order)
    /\ fc_lp = FcNotRun
    /\ fc_hp = FcNotRun

FcParked ==
    /\ fc_order = 0
    /\ fc_raw = <<1>>
    /\ fc_lp = FcNotRun
    /\ fc_hp = FcNotRun

FcLowpass ==
    /\ fc_lp = FcNotRun
    /\ fc_lp' = FIRCoeffs_lowpass(fc_order, fc_raw)
    /\ UNCHANGED <<fc_order, fc_raw, fc_hp, notFc>>

FcHighpass ==
    /\ fc_hp = FcNotRun
    /\ fc_hp' = FIRCoeffs_highpass(fc_order, fc_raw)
    /\ UNCHANGED <<fc_order, fc_raw, fc_lp, notFc>>

FcNext == FcLowpass \/ FcHighpass

(***************************************************************************)
(* ResampleProcessor (lib/resampling/webaudio.js)                          *)
(* The Kaiser design is not evaluated: the prototype taps are symmetric    *)
(* integers with a positive sum D, each standing for tap / D after         *)
(* normalizeUnityDC.  A tap sum is above the 1e-12 threshold exactly when  *)
(* its integer is positive.  Samples are integers, outputs exact           *)
(* fractions.  The batching of outputs into messages copies the values     *)
(* and is left out, as are the timestamps.                                 *)
(***************************************************************************)
\* L / M as rationalApprox reduces it.
RpRatios == {<<1, 1>>, <<1, 2>>, <<2, 1>>, <<2, 3>>, <<3, 2>>}

RpTapValues == {0 - 1, 0, 2}

\* this.N: tapsPerPhase * L, made odd.
RpN(L) == IF (TapsPerPhase * L) % 2 = 0 THEN TapsPerPhase * L + 1
          ELSE TapsPerPhase * L

\* hr[i] = h[N - 1 - i]; phase p holds hr[p], hr[p + L], ...  h[i + 1] is
\* tap i.
RpPhase(h, N, L, p) ==
    [j \in 1..((N - 1 - p) \div L + 1) |-> h[N - (p + (j - 1) * L)]]

RpPhases(h, N, L) == [p \in 0..(L - 1) |-> RpPhase(h, N, L, p)]

\* The prototypes designLowpassKaiser can stand for: h[n] = h[N - 1 - n],
\* and every polyphase branch of a low-pass has a positive sum (about
\* 1 / L of the whole).
RpPrototypes(N, L) ==
    {h \in [1..N -> RpTapValues] :
        /\ \A i \in 1..N : h[i] = h[N + 1 - i]
        /\ \A p \in 0..(L - 1) : FcSum(RpPhase(h, N, L, p)) > 0}

RpPhaseLenMax(phases, L) ==
    CHOOSE m \in {Len(phases[p]) : p \in 0..(L - 1)} :
        \A p \in 0..(L - 1) : Len(phases[p]) <= m

\* this.bufCap = max(2048, phaseLenMax + 1024), scaled down.
RpBufCap(phaseLenMax) == Max2(2, phaseLenMax + 1)

\* The processor as the constructor leaves it.
ResampleProcessor_new(L, M, h) ==
    LET N      == RpN(L)
        phases == RpPhases(h, N, L)
        cap    == RpBufCap(RpPhaseLenMax(phases, L))
    IN  [L |-> L, M |-> M, phases |-> phases, bufCap |-> cap,
         buf |-> [i \in 0..(cap - 1) |-> 0], writePtr |-> 0, writeAbs |-> 0,
         nOut |-> 0]

appendSample(st, x) ==
    [st EXCEPT !.buf[st.writePtr] = x,
               !.writePtr = IF st.writePtr + 1 = st.bufCap THEN 0
                            ELSE st.writePtr + 1,
               !.writeAbs = st.writeAbs + 1]

hasSample(st, absIdx) ==
    IF absIdx < 0 THEN FALSE
    ELSE LET oldest == st.writeAbs - st.bufCap
         IN  absIdx >= oldest /\ absIdx <= st.writeAbs - 1

\* A getSample that takes the offset from slot 0 of the ring.
getSample_fromSlotZero(st, absIdx) ==
    IF absIdx < 0 THEN 0
    ELSE LET oldest == st.writeAbs - st.bufCap
         IN  IF absIdx < oldest THEN 0
             ELSE st.buf[(absIdx - oldest) % st.bufCap]

getSample(st, absIdx) ==
    IF absIdx < 0 THEN 0
    ELSE LET oldest == st.writeAbs - st.bufCap
         IN  IF absIdx < oldest THEN 0
             ELSE st.buf[(st.writePtr + (absIdx - oldest)) % st.bufCap]

\* The tap loop of one output: a = [acc, sumH, reads], reads being the
\* <<idx, x>> pairs fetched through getSample.
RECURSIVE RpTaps(_, _, _, _, _)
RpTaps(st, hp, q, k, a) ==
    IF k >= Len(hp) THEN a
    ELSE LET idx == q - k
         IN  IF hasSample(st, idx)
             THEN LET x == getSample(st, idx)
                  IN  RpTaps(st, hp, q, k + 1,
                             [acc   |-> a.acc + hp[k + 1] * x,
                              sumH  |-> a.sumH + hp[k + 1],
                              reads |-> Append(a.reads, <<idx, x>>)])
             ELSE RpTaps(st, hp, q, k + 1, a)

\* The loop condition: q = floor(n * M / L) has been written.
RpMayProduce(st) == (st.nOut * st.M) \div st.L <= st.writeAbs - 1

\* produceOutputsIfPossible: r = [st, out].
RECURSIVE produceOutputsIfPossible(_)
produceOutputsIfPossible(r) ==
    IF ~RpMayProduce(r.st) THEN r
    ELSE LET st == r.st
             n  == st.nOut
             u  == n * st.M
             q  == u \div st.L
             p  == u - q * st.L
             a  == RpTaps(st, st.phases[p], q, 0,
                          [acc |-> 0, sumH |-> 0, reads |-> <<>>])
             y  == IF a.sumH > 0 THEN Rat(a.acc, a.sumH) ELSE Rat(0, 1)
         IN  produceOutputsIfPossible(
                 [st  |-> [st EXCEPT !.nOut = n + 1],
                  out |-> Append(r.out,
                                 [n |-> n, q |-> q, have |-> st.writeAbs,
                                  y |-> y, reads |-> a.reads])])

\* The for loop of process(): appendSample, then produceOutputsIfPossible.
RECURSIVE RpIngest(_, _, _)
RpIngest(r, ch, i) ==
    IF i > Len(ch) THEN r
    ELSE RpIngest(produceOutputsIfPossible(
                      [st |-> appendSample(r.st, ch[i]), out |-> r.out]),
                  ch, i + 1)

process(r, ch) ==
    IF Len(ch) = 0 THEN r
    ELSE produceOutputsIfPossible(RpIngest(r, ch, 1))

\* Sample i of the input signal.
RpSample(i) == IF rp_stream = 0 THEN i + 1 ELSE rp_stream

RpInit ==
    /\ \E lm \in RpRatios : \E h \in RpPrototypes(RpN(lm[1]), lm[1]) :
           rp = ResampleProcessor_new(lm[1], lm[2], h)
    /\ rp_stream \in {0, 1, 3}
    /\ rp_out = <<>>
    /\ rp_ncalls = 0

RpParked ==
    /\ rp = [L |-> 1, M |-> 1, phases |-> [p \in {0} |-> <<>>], bufCap |-> 2,
             buf |-> [i \in 0..1 |-> 0], writePtr |-> 0, writeAbs |-> 0,
             nOut |-> 0]
    /\ rp_stream = 0
    /\ rp_out = <<>>
    /\ rp_ncalls = 0

\* One process() call with the next len samples of the signal.
RpProcess ==
    /\ rp_ncalls < MaxRpCalls
    /\ \E len \in 0..MaxRpBlock :
           LET ch == [i \in 1..len |-> RpSample(rp.writeAbs + i - 1)]
               r  == process([st |-> rp, out |-> rp_out], ch)
           IN  /\ rp' = r.st
               /\ rp_out' = r.out
    /\ rp_ncalls' = rp_ncalls + 1
    /\ UNCHANGED <<rp_stream, notRp>>

RpNext == RpProcess

\* The components below stay in their constructed state in the
\* specifications of the other components.
CoreParked == CBParked /\ ChInit /\ KllParked /\ QsParked

DspParked == IirParked /\ FcParked /\ RpParked

SigParked == LinParked /\ EdfParked /\ LttbParked /\ HrvParked /\ FirParked
               /\ SnParked /\ SsParked


(***************************************************************************)
(* Specifications                                                          *)
(***************************************************************************)
InitCB == CBInit /\ ChInit /\ KllParked /\ QsParked /\ SigParked /\ DspParked

SpecCB == InitCB /\ [][CBNext]_vars

InitCh == CBParked /\ ChInit /\ KllParked /\ QsParked /\ SigParked /\ DspParked

SpecCh == InitCh /\ [][ChNextStep]_vars

InitKLL == CBParked /\ ChInit /\ KllInit /\ QsParked /\ SigParked /\ DspParked

SpecKLL == InitKLL /\ [][KllNext]_vars

InitQS == CBParked /\ ChInit /\ KllParked /\ QsInit /\ SigParked /\ DspParked

SpecQS == InitQS /\ [][QsNext]_vars

InitLin == CoreParked /\ LinInit /\ EdfParked /\ LttbParked /\ HrvParked /\ FirParked
             /\ SnParked /\ SsParked /\ DspParked

SpecLin == InitLin /\ [][LinNext]_vars

InitEdf == CoreParked /\ LinParked /\ EdfInit /\ LttbParked /\ HrvParked /\ FirParked
             /\ SnParked /\ SsParked /\ DspParked

SpecEdf == InitEdf /\ [][EdfNext]_vars

InitLttb == CoreParked /\ LinParked /\ EdfParked /\ LttbInit /\ HrvParked /\ FirParked
             /\ SnParked /\ SsParked /\ DspParked

SpecLttb == InitLttb /\ [][LttbNext]_vars

InitHrv == CoreParked /\ LinParked /\ EdfParked /\ LttbParked /\ HrvInit /\ FirParked
             /\ SnParked /\ SsParked /\ DspParked

SpecHrv == InitHrv /\ [][HrvNext]_vars

InitFir == CoreParked /\ LinParked /\ EdfParked /\ LttbParked /\ HrvParked
             /\ FirInit /\ SnParked /\ SsParked /\ DspParked

SpecFir == InitFir /\ [][FirNext]_vars

InitSn == CoreParked /\ LinParked /\ EdfParked /\ LttbParked /\ HrvParked
            /\ FirParked /\ SnInit /\ SsParked /\ DspParked

SpecSn == InitSn /\ [][SnNext]_vars

InitSs == CoreParked /\ LinParked /\ EdfParked /\ LttbParked /\ HrvParked
            /\ FirParked /\ SnParked /\ SsInit /\ DspParked

SpecSs == InitSs /\ [][SsNext]_vars

InitIir == CoreParked /\ SigParked /\ IirInit /\ FcParked /\ RpParked

SpecIir == InitIir /\ [][IirNext]_vars

InitFc == CoreParked /\ SigParked /\ IirParked /\ FcInit /\ RpParked

SpecFc == InitFc /\ [][FcNext]_vars

InitRp == CoreParked /\ SigParked /\ IirParked /\ FcParked /\ RpInit

SpecRp == InitRp /\ [][RpNext]_vars

(***************************************************************************)
(* Claims on CircularBuffer                                                *)
(***************************************************************************)

\* The last k elements of a sequence (all of it when shorter).
LastN(s, k) ==
    IF Len(s) <= k THEN s ELSE SubSeq(s, Len(s) - k + 1, Len(s))

\* C1: push(x) on a non-full buffer appends x and returns undefined; on a
\* full buffer it overwrites the logically oldest element and returns it, so
\* after C+1 pushes on a buffer of capacity C the (C+1)th push returned the
\* first value pushed and toArray() lists the newest C values oldest first.
C1_PushOverwritesOldest ==
    /\ cb_last.op = "push" =>
         IF Len(cb_last.before) < buf.capacity_
         THEN /\ cb_last.ret = Undefined
              /\ toArray(buf) = Append(cb_last.before, cb_last.arg)
         ELSE /\ cb_last.ret = Head(cb_last.before)
              /\ toArray(buf) = Append(Tail(cb_last.before), cb_last.arg)
    /\ (cb_pure /\ Len(cb_hist) = buf.capacity_ + 1) =>
         /\ cb_last.ret = cb_hist[1]
         /\ toArray(buf) = LastN(cb_hist, buf.capacity_)

\* Witness for C1: the (C+1)th push into a buffer of
\* capacity 2 has just overwritten and returned the first value pushed.
C1_Witness ==
    /\ cb_pure
    /\ buf.capacity_ = 2
    /\ cb_hist = <<1, 2, 2>>
    /\ cb_last.ret = 1

\* C2: after any sequence of push, tryPush, dequeue, clear and fillFrom calls
\* size <= capacity, toArray() equals the reference FIFO list, and the value
\* each call returned is the one the reference list returns.
C2_RefinesFifo ==
    /\ buf.size_ <= buf.capacity_
    /\ toArray(buf) = cb_ref
    /\ cb_last.ret = cb_last.refRet

\* Witness for C2: a wrapped buffer (head moved past slot 0, tail wrapped
\* around) after a dequeue in a run that also overwrote on push.
C2_Witness ==
    /\ buf.capacity_ = 3
    /\ buf.head = 2
    /\ buf.size_ = 2
    /\ cb_last.op = "dequeue"
    /\ cb_last.ret # Undefined

(***************************************************************************)
(* Claims on Channel                                                       *)
(***************************************************************************)

\* Every recorded next() outcome of every iterator.
AllSeen == UNION {{ch_out[i][k] : k \in 1..Len(ch_out[i])} : i \in Iters}

\* The next() that close(err) found waiting rejects with err.
WaiterRejected(o) ==
    o.waited # NoErr => (o.kind = "throw" /\ o.err = o.waited)

\* Some close() call found a consumer waiting on next().
ClosedWhileWaiting ==
    \E i \in Iters :
        \/ ch_wait[i] # NoErr
        \/ \E k \in 1..Len(ch_out[i]) : ch_out[i][k].waited # NoErr

\* C3 as stated: when close(err) is called while a consumer is waiting on
\* next(), that pending next() rejects with err and every later next() on
\* the channel also rejects with the close error.
C3_Stated_EveryLaterNextRejects ==
    ClosedWhileWaiting =>
        \A o \in AllSeen :
            /\ WaiterRejected(o)
            /\ o.late => (o.kind = "throw" /\ o.err = o.cur)

\* C3 amended: when close(err) is called while a consumer is waiting on
\* next(), that pending next() rejects with err; after a close the next()
\* of an iterator that has not terminated rejects with the error of the
\* latest close(), and a next() on an iterator that has already rejected
\* resolves as done.
C3_CloseRejectsWaiterAndLaterFirstNext ==
    \A o \in AllSeen :
        /\ WaiterRejected(o)
        /\ o.late =>
             IF o.wasDone THEN o.kind = "done"
             ELSE o.kind = "throw" /\ o.err = o.cur

\* Witness for C3: an iterator was waiting when close(err) came, its next()
\* rejected with err, its following next() resolved done, and the other
\* iterator's next() after a second close rejected with that close's error.
C3_Witness ==
    \E i \in Iters : \E j \in Iters \ {i} :
        /\ Len(ch_out[i]) = 2
        /\ ch_out[i][1].waited = "E1"
        /\ ch_out[i][1].kind = "throw"
        /\ ch_out[i][2].kind = "done"
        /\ Len(ch_out[j]) >= 1
        /\ ch_out[j][1].late
        /\ ch_out[j][1].err = "E2"

\* C4: after close() every push(item) throws and changes nothing: the item
\* is neither queued nor handed to any consumer.
C4_PushAfterCloseThrows ==
    [][(chan.aborted /\ ch_ncalls'.push # ch_ncalls.push) =>
          /\ ch_lastPush'.threw
          /\ chan' = chan
          /\ ch_out' = ch_out
          /\ ch_gen' = ch_gen
          /\ ch_pushed' = ch_pushed]_vars

\* Witness for C4: a push after close threw while items queued before the
\* close are still in the queue.
C4_Witness ==
    /\ chan.aborted
    /\ ch_lastPush.threw
    /\ chan.queue # <<>>

\* Items of the value outcomes of iterator i, in the order received.
Received(i) == [k \in 1..Len(ch_out[i]) |-> ch_out[i][k].item]

\* The item handed to iterator i's promise and not yet yielded.
InFlight(i) ==
    IF chan.promise[i].st = "fulfilled" THEN <<chan.promise[i].item>> ELSE <<>>

\* C5: with a single consumer and no close, under every interleaving of
\* push and next the consumer receives exactly the pushed items, each once,
\* in push order: what it received, then the item in flight to it, then the
\* queue, is the sequence of pushed items.
C5_SingleConsumerInOrder ==
    \A i \in Iters :
        (ch_ncalls.close = 0 /\ ch_used \subseteq {i}) =>
            /\ \A k \in 1..Len(ch_out[i]) : ch_out[i][k].kind = "value"
            /\ Received(i) \o InFlight(i) \o chan.queue = ch_pushed

\* Witness for C5: the consumer got one item, a push while it waited handed
\* it a second one (not yet yielded), and a third push went to the queue.
C5_Witness ==
    /\ ch_ncalls.close = 0
    /\ ch_used = {1}
    /\ Len(ch_out[1]) = 1
    /\ chan.promise[1].st = "fulfilled"
    /\ chan.queue # <<>>
    /\ ch_pushed = <<1, 2, 1>>

(***************************************************************************)
(* Claims on KLLSketch                                                     *)
(***************************************************************************)

\* quantile(i / PSteps) of the current sketch.
Q(i) == quantile(levels, i, PSteps)

\* C6: compaction never loses mass: after any sequence of add / addMany calls
\* the represented mass (sum of items.length * 2^h) equals the number of
\* finite values added.
C6_MassEqualsCount == mass(levels) = kll_n

\* C7 as stated: for a non-empty finite stream, also after compactions,
\* quantile(p) is the stream minimum for p <= 0 and the stream maximum for
\* p >= 1.
C7_Stated_EndpointsAreStreamExtremes ==
    kll_n > 0 =>
        /\ \A i \in {0 - 1, 0} : RatEq(Q(i), Rat(kll_smin, 1))
        /\ \A i \in {PSteps, PSteps + 1} : RatEq(Q(i), Rat(kll_smax, 1))

\* C7 amended: for a non-empty finite stream quantile(p) is the smallest
\* retained representative for p <= 0 and the largest one for p >= 1; both
\* lie within [min(stream), max(stream)], and they are the stream minimum
\* and maximum as long as no compaction has happened (a single level).
C7_EndpointsAreRetainedExtremes ==
    kll_n > 0 =>
        /\ \A i \in {0 - 1, 0} :
             /\ ~Q(i).nan /\ Q(i).d = 1
             /\ Q(i).n \in RepValues(levels)
             /\ \A x \in RepValues(levels) : Q(i).n <= x
             /\ kll_smin <= Q(i).n
             /\ Len(levels) <= 1 => Q(i).n = kll_smin
        /\ \A i \in {PSteps, PSteps + 1} :
             /\ ~Q(i).nan /\ Q(i).d = 1
             /\ Q(i).n \in RepValues(levels)
             /\ \A x \in RepValues(levels) : Q(i).n >= x
             /\ Q(i).n <= kll_smax
             /\ Len(levels) <= 1 => Q(i).n = kll_smax

\* Witness for C7: after a compaction of an even number of items (no mass
\* was lost) the stream minimum is no longer retained and quantile(0) lies
\* above it, while quantile(1) is still the stream maximum.
C7_Witness ==
    /\ kll_n > 0
    /\ Len(levels) >= 2
    /\ mass(levels) = kll_n
    /\ Q(0).n > kll_smin
    /\ Q(PSteps).n = kll_smax

AsSeq(arr) == [i \in 1..ArrLen(arr) |-> arr[i - 1]]

\* A copy of the array sorted ascending.
SortedCopy(arr) == SortSeq(AsSeq(arr), <)

Clamp(x, lo, hi) == IF x < lo THEN lo ELSE IF x > hi THEN hi ELSE x

\* The rank the claim names for p = pn / pd (p clamped to [0, 1] first).
ClaimedRank(n, pn, pd, method) ==
    LET ppn == Clamp(pn, 0, pd) IN
    IF method = "lower"
    THEN Clamp((ppn * (n - 1)) \div pd, 0, n - 1)
    ELSE Clamp(((ppn * n + pd - 1) \div pd) - 1, 0, n - 1)

\* C9: percentile(arr, p, method) on a non-empty array returns exactly the
\* element of the sorted copy at the method's rank, for every pivot choice
\* and with duplicate values; it never throws on a non-empty array.
C9_PercentileMatchesSortedCopy ==
    (qs_pc # "call" /\ ArrLen(qs_orig) > 0) =>
        /\ qs_pc = "returned"
        /\ qs_result =
             SortedCopy(qs_orig)[ClaimedRank(ArrLen(qs_orig), qs_p.n, qs_p.d,
                                             qs_method) + 1]

\* Witness for C9: percentile with method 'lower' at p = 1/2 returned the
\* second smallest of four values, two of them equal, after reordering.
C9_Witness ==
    /\ qs_pc = "returned"
    /\ qs_method = "lower"
    /\ 2 * qs_p.n = qs_p.d
    /\ AsSeq(qs_orig) = <<3, 1, 2, 1>>
    /\ qs_result = 1
    /\ qs_arr # qs_orig

\* C10: percentile may reorder the array but after it returns the array
\* holds the same multiset of values as before the call.
C10_PercentilePreservesMultiset ==
    qs_pc # "call" =>
        /\ ArrLen(qs_arr) = ArrLen(qs_orig)
        /\ SortedCopy(qs_arr) = SortedCopy(qs_orig)

\* Witness for C10: percentile returned and left the array in another order.
C10_Witness ==
    /\ qs_pc = "returned"
    /\ AsSeq(qs_orig) = <<3, 2, 1, 2>>
    /\ AsSeq(qs_arr) = <<1, 2, 2, 3>>

(***************************************************************************)
(* Linear resample                                                         *)
(***************************************************************************)
NonDecreasing(input) ==
    \A i \in 1..(Len(input) - 1) : input[i].t <= input[i + 1].t

LinRuns == {lin_bs, lin_tp}

\* C11: for n >= 2 and a non-empty series with non-decreasing timestamps
\* (repeated timestamps allowed), the value of output[0] is exactly the
\* value of the first input sample and the value of output[n-1] is exactly
\* the value of the last input sample, in both versions of resample.
C11_EndpointsExact ==
    \A r \in LinRuns :
        (r.done /\ lin_n >= 2 /\ Len(lin_in) >= 1 /\ NonDecreasing(lin_in))
            => /\ Len(r.out) = lin_n
               /\ RatEq(r.out[1].v, Rat(lin_in[1].v, 1))
               /\ RatEq(r.out[lin_n].v, Rat(lin_in[Len(lin_in)].v, 1))

(***************************************************************************)
(* EDF writer loop                                                         *)
(***************************************************************************)
\* The buffered samples of channel i whose timestamp lies in the window of
\* the last firing, oldest first.
EdfInWindow(i) ==
    SelectSeq(toArray(edf_tick.bufs[i]), LAMBDA p : p.t >= edf_tick.fromTime)

\* The newest run of buffered samples of channel i that all lie in the
\* window: the longest suffix of the buffer without an older sample.
EdfNewestRun(i) ==
    LET arr == toArray(edf_tick.bufs[i])
        k   == CHOOSE j \in 0..Len(arr) :
                   /\ \A m \in (Len(arr) - j + 1)..Len(arr) :
                          arr[m].t >= edf_tick.fromTime
                   /\ (j < Len(arr) => arr[Len(arr) - j].t < edf_tick.fromTime)
    IN  SubSeq(arr, Len(arr) - k + 1, Len(arr))

EdfValuesOf(r) == [k \in 1..Len(r) |-> r[k].v]

EdfZeros(n) == [k \in 1..n |-> Rat(0, 1)]

\* The record of the last firing is the one the claim describes when the
\* samples it draws on for channel i are given by sel(i).
EdfRecordFrom(i, sel) ==
    /\ Len(edf_tick.record[i]) = edf_spr[i]
    /\ Len(sel) = 0 => edf_tick.record[i] = EdfZeros(edf_spr[i])
    /\ Len(sel) > 0 =>
           edf_tick.record[i] = EdfValuesOf(resample_twoPointer(sel, edf_spr[i]))

LttbLength == Len(ltb_in.timestamps)

LttbNoOp == ltb_n >= LttbLength \/ ltb_n < 3

LttbSorted ==
    \A i \in 1..(LttbLength - 1) :
        ltb_in.timestamps[i] <= ltb_in.timestamps[i + 1]

\* C13: lttb returns the input unchanged when n >= length or n < 3;
\* otherwise it returns exactly n points, each a point of the input, the
\* first being the input's first point and the last the input's last point.
C13_NoOpOrNInputPoints ==
    ltb_out.done =>
        LET r == ltb_out.res
        IN  IF LttbNoOp
            THEN /\ r.same
                 /\ r.timestamps = ltb_in.timestamps
                 /\ r.values = ltb_in.values
            ELSE /\ Len(r.timestamps) = ltb_n
                 /\ Len(r.values) = ltb_n
                 /\ \A k \in 1..ltb_n : \E j \in 1..LttbLength :
                        /\ r.timestamps[k] = ltb_in.timestamps[j]
                        /\ r.values[k] = ltb_in.values[j]
                 /\ r.timestamps[1] = ltb_in.timestamps[1]
                 /\ r.values[1] = ltb_in.values[1]
                 /\ r.timestamps[ltb_n] = ltb_in.timestamps[LttbLength]
                 /\ r.values[ltb_n] = ltb_in.values[LttbLength]

\* A real downsampling (5 points to 4) whose last two input points differ.
C13_Witness ==
    /\ ltb_out.done
    /\ LttbLength = 5
    /\ ltb_n = 4
    /\ ltb_in.values[4] # ltb_in.values[5]
    /\ ltb_out.res.values[4] = ltb_in.values[5]

\* C14: for 3 <= n < length on a series with non-decreasing timestamps,
\* every bucket yields a valid input index, the selected indices increase
\* strictly from 0 to length - 1, and so the output timestamps are
\* non-decreasing.
C14_PicksIncreaseTimestampsSorted ==
    (ltb_out.done /\ ~LttbNoOp /\ LttbSorted) =>
        LET r == ltb_out.res
        IN  /\ Len(r.picks) = ltb_n
            /\ r.picks[1] = 0
            /\ r.picks[ltb_n] = LttbLength - 1
            /\ \A k \in 1..(ltb_n - 1) : r.picks[k] < r.picks[k + 1]
            /\ \A k \in 1..(ltb_n - 1) : r.timestamps[k] <= r.timestamps[k + 1]

\* Five sorted points with a repeated timestamp, downsampled to three.
C14_Witness ==
    /\ ltb_out.done
    /\ LttbSorted
    /\ ltb_in.timestamps = <<0, 1, 1, 2, 3>>
    /\ ltb_n = 3
    /\ ltb_out.res.picks[2] \in 1..3

(***************************************************************************)
(* deriveHRV                                                               *)
(***************************************************************************)
HrvLog == {hrv_log[k] : k \in 1..Len(hrv_log)}

\* C15: an RR value enters the window only if, in rounded milliseconds, it
\* lies in [300, 2000] and differs from the previously accepted value (if
\* any) by at most 250 ms; a rejected value leaves the window unchanged.
C15_AcceptOnlyValidRR ==
    \A e \in HrvLog :
        /\ e.accepted =>
               /\ e.rrMs >= 300 /\ e.rrMs <= 2000
               /\ e.last # 0 => Abs(e.rrMs - e.last) <= 250
               /\ Len(e.after) > 0 /\ e.after[Len(e.after)] = e.rrMs
        /\ ~e.accepted => e.after = e.before

\* One measurement with a value rejected for its jump of 251 ms and a value
\* accepted at a jump of exactly 250 ms, into a window holding two values.
C15_Witness ==
    /\ Len(hrv_log) = 2
    /\ ~hrv_log[1].accepted /\ hrv_log[1].rrMs = 551 /\ hrv_log[1].last = 300
    /\ hrv_log[2].accepted /\ hrv_log[2].rrMs = 550
    /\ Len(hrv_log[2].before) = 2

\* The window argument lets at least two values stay in the buffer.
HrvWindowHoldsTwo == hrv_window.nan \/ hrv_window.v >= 2

\* C16: one output per input measurement, in input order; hrv is undefined
\* on every tick with fewer than two accepted values in the window and a
\* defined number on every tick with at least two, so with window >= 2 it
\* is defined on every tick from the second acceptance on.
C16_OneOutputPerInputHrvDefinedFromTwo ==
    /\ Len(hrv_out) = Len(hrv_in)
    /\ \A k \in 1..Len(hrv_out) :
           /\ hrv_out[k].m = hrv_in[k]
           /\ hrv_out[k].hrv.defined <=> Len(hrv_out[k].window) >= 2
           /\ hrv_out[k].hrv.defined =>
                  /\ hrv_out[k].hrv.meanSq.d = Len(hrv_out[k].window) - 1
                  /\ hrv_out[k].hrv.meanSq.n >= 0
           /\ HrvWindowHoldsTwo =>
                  (hrv_out[k].hrv.defined <=> hrv_out[k].nacc >= 2)
           /\ (k > 1 /\ hrv_out[k - 1].hrv.defined) => hrv_out[k].hrv.defined

\* Three measurements with one valid interval each, window 2: undefined on
\* the first tick, defined on the second and third; then the stream ends.
C16_Witness ==
    /\ hrv_done
    /\ hrv_window = NumWindow(2)
    /\ Len(hrv_out) = 3
    /\ \A k \in 1..3 : hrv_out[k].nacc = k
    /\ ~hrv_out[1].hrv.defined
    /\ hrv_out[2].hrv.defined
    /\ hrv_out[3].hrv.defined
    /\ hrv_out[3].hrv.meanSq.n > 0

\* C17: the RR window is a bounded FIFO: after every processed measurement
\* it holds at most W values (W the window argument), and a value accepted
\* into a window already holding W values evicts the oldest one; for every
\* window value a driver passes in, GenericHRDriver's included.
C17_WindowBoundedFifo ==
    ~hrv_window.nan =>
        /\ Len(hrv_buf) <= hrv_window.v
        /\ \A e \in HrvLog :
               (e.accepted /\ Len(e.before) = hrv_window.v) =>
                   e.after = Append(Tail(e.before), e.rrMs)

(***************************************************************************)
(* FIRFilter                                                               *)
(***************************************************************************)
\* C18: simulate(xs) does not disturb the running state: after any history
\* of calls the instance is in the state of one that got the same calls
\* without the simulations and every state-changing call returns the same
\* outputs on both; simulate(xs) returns what multiStep(xs) returns on a
\* newly constructed filter.
C18_SimulateLeavesStateAlone ==
    /\ fir_z = fir_twin
    /\ fir_last.op \in {"singleStep", "multiStep", "filtfilt"} =>
           fir_last.out = fir_last.twinOut
    /\ fir_last.op = "simulate" => fir_last.out = fir_last.freshOut

\* A multiStep on a three-tap filter whose delay line holds earlier samples,
\* made after a simulation, with an output a fresh filter would not give.
C18_Witness ==
    /\ Len(fir_f) = 3
    /\ fir_sims > 0
    /\ fir_last.op = "multiStep"
    /\ Len(fir_last.out) = 1
    /\ fir_last.out # FIRFilter_multiStep(fir_f, initZero(2), <<1>>).out
    /\ fir_last.out # FIRFilter_multiStep(fir_f, initZero(2), <<2>>).out

(***************************************************************************)
(* SnoreMicDriver                                                          *)
(***************************************************************************)
\* C19: every Value yielded by values() has a timestamp greater than or
\* equal to that of the Value yielded before it, within a chunk and across
\* consecutive chunks, whatever the worklet messages and clock readings.
C19_TimestampsNonDecreasing ==
    \A k \in 1..(Len(sn_emitted) - 1) : sn_emitted[k] <= sn_emitted[k + 1]

(***************************************************************************)
(* startStreaming                                                          *)
(***************************************************************************)
\* C20: when a driver's stream terminates with an error (and an onError
\* callback was given), onError is invoked if and only if the termination
\* is an abnormal failure; it is not invoked when the stream ended because
\* its channel was closed in an expected shutdown.
C20_OnErrorIffAbnormalFailure ==
    (ss_state = "caught" /\ ss_hasOnError) =>
        (Len(ss_onError) > 0 <=> ss_cause = "failure")

(***************************************************************************)
(* Claims on KLLSketch, continued                                          *)
(***************************************************************************)

\* What a caller can observe of a sketch: size() and quantile(p) at the
\* sampled p, including p below 0 and above 1.
KllObs(lv) ==
    [size |-> KLLSketch_size(lv),
     q    |-> [i \in (0 - 1)..(PSteps + 1) |-> quantile(lv, i, PSteps)]]

\* The array without its non-finite entries.
FiniteOnly(arr) == [i \in 1..Len(FiniteOf(arr)) |-> Fin(FiniteOf(arr)[i])]

\* C21: add(x) and addMany(xs) drop every non-finite value: a call that is
\* given no finite value leaves size() and every quantile(p) as they were,
\* and addMany(xs) can leave the sketch with exactly the sizes and quantiles
\* that addMany of the finite entries of xs can leave it with.
C21_NonFiniteDropped ==
    /\ [][(kll_nops' # kll_nops /\ kll_n' = kll_n) =>
              KllObs(levels') = KllObs(levels)]_vars
    /\ [](\A arr \in KBatches :
              {KllObs(l) : l \in KLLSketch_addMany(levels, eager, arr)} =
              {KllObs(l) : l \in KLLSketch_addMany(levels, eager,
                                                   FiniteOnly(arr))})

\* Witness for C21: after two calls the sketch holds exactly the three
\* finite values of the batch [2, NaN, 3, 3]; the other call added nothing.
C21_Witness ==
    /\ kll_nops = 2
    /\ kll_n = 3
    /\ levels = << <<2, 3, 3>> >>

(***************************************************************************)
(* Claims on the IIR coefficient designers                                 *)
(***************************************************************************)
IirCallsOf(op) == {k \in 1..Len(iir_calls) : iir_calls[k].op = op}

\* The caller asked for an order, a known behavior and a known
\* characteristic.
IirValidCascade ==
    /\ iir_params.hasOrder
    /\ iir_params.behavior \in IirBehaviors
    /\ iir_params.characteristic \in IirCharacteristics

\* C22: calcCoeffs returns exactly min(order, 12) biquad stages for every
\* requested order >= 0 with a valid characteristic and behavior; order 40
\* yields exactly 12 stages.
C22_StagesAreMinOrder12 ==
    IirValidCascade =>
        \A k \in IirCallsOf("calcCoeffs") :
            /\ ~iir_calls[k].threw
            /\ Len(iir_calls[k].value) = Min2(iir_params.order, 12)

\* C24: the designers are pure: a call to lowpass, highpass, lowshelf or
\* highshelf, directly or through calcCoeffs, leaves the caller's params
\* object as it was, and two calls of the same function with that object
\* return the same coefficients.
C24_DesignersLeaveParamsAlone ==
    /\ iir_params = iir_orig
    /\ \A j \in 1..Len(iir_calls), k \in 1..Len(iir_calls) :
           iir_calls[j].op = iir_calls[k].op =>
               /\ iir_calls[j].threw = iir_calls[k].threw
               /\ iir_calls[j].value = iir_calls[k].value

(***************************************************************************)
(* Claims on FIRCoeffs                                                     *)
(***************************************************************************)
\* The sum of an array of taps over one denominator.
RECURSIVE FcTapSum(_)
FcTapSum(h) ==
    IF Len(h) = 0 THEN Rat(0, 1)
    ELSE IF Len(h) = 1 THEN h[1]
    ELSE Rat(h[1].n + FcTapSum(Tail(h)).n, h[1].d)

OneMinus(x) == Rat(x.d - x.n, x.d)

Negated(x) == Rat(0 - x.n, x.d)

\* C23: for every order, even or odd, highpass is the spectral inversion of
\* lowpass for the same parameters: the same length, every tap but the
\* center one the negation of the lowpass tap, the center tap 1 minus the
\* lowpass center tap, and so a tap sum of 1 minus the lowpass sum.
C23_HighpassIsInvertedLowpass ==
    (fc_lp # FcNotRun /\ fc_hp # FcNotRun) =>
        /\ Len(fc_hp) = Len(fc_lp)
        /\ \A i \in 0..(Len(fc_lp) - 1) :
               IF 2 * i = Len(fc_lp) - 1
               THEN RatEq(fc_hp[i + 1], OneMinus(fc_lp[i + 1]))
               ELSE RatEq(fc_hp[i + 1], Negated(fc_lp[i + 1]))
        /\ RatEq(FcTapSum(fc_hp), OneMinus(FcTapSum(fc_lp)))

(***************************************************************************)
(* Claims on ResampleProcessor                                             *)
(***************************************************************************)
\* Output j has every tap of its phase on a received sample.
RpSteady(j) ==
    Len(rp_out[j].reads) =
        Len(rp.phases[(rp_out[j].n * rp.M) % rp.L])

\* C25: unity DC gain: when every input sample equals a constant c, every
\* emitted output equals c, at steady state and during warm-up while some
\* taps land on samples not yet received.
C25_ConstantInConstantOut ==
    rp_stream # 0 =>
        \A j \in 1..Len(rp_out) : RatEq(rp_out[j].y, Rat(rp_stream, 1))

\* C30: outputs are produced in index order n = 0, 1, 2, ...; output n is
\* computed only once input floor(n * M / L) has been received; after K
\* ingested inputs exactly ceil(K * L / M) outputs have been produced; and
\* every sample read through getSample is one still held in the ring (the
\* input of that index, not yet overwritten), every other tap being
\* skipped.
C30_OutputsFollowInputs ==
    /\ Len(rp_out) = rp.nOut
    /\ Len(rp_out) = CeilDiv(rp.writeAbs * rp.L, rp.M)
    /\ \A j \in 1..Len(rp_out) :
           LET o == rp_out[j]
           IN  /\ o.n = j - 1
               /\ o.q = (o.n * rp.M) \div rp.L
               /\ o.q <= o.have - 1
               /\ CeilDiv((o.have - 1) * rp.L, rp.M) <= o.n
               /\ \A i \in 1..Len(o.reads) :
                      /\ o.reads[i][1] >= 0
                      /\ o.reads[i][1] >= o.have - rp.bufCap
                      /\ o.reads[i][1] <= o.q
                      /\ o.reads[i][2] = RpSample(o.reads[i][1])

\* Witness for C30: a 2/3 resampler whose ring has wrapped, with an output
\* computed after the wrap from several samples of the ramp, and one input
\* (index 2) that was ingested without any output becoming due.
C30_Witness ==
    /\ rp.L = 2 /\ rp.M = 3
    /\ rp_stream = 0
    /\ rp.writeAbs > rp.bufCap
    /\ \E j \in 1..Len(rp_out) :
           /\ rp_out[j].have > rp.bufCap
           /\ Len(rp_out[j].reads) >= 2
           /\ rp_out[j].y.n # 0
    /\ \A j \in 1..Len(rp_out) : rp_out[j].have # 3

(***************************************************************************)
(* Claims on Channel: items left in the queue at close()                   *)
(***************************************************************************)

\* The channel is closed with items still queued.  push() throws and next()
\* takes nothing once aborted, so the queue of such a state is the queue
\* every next() made after the close has found.
ClosedWithQueue == chan.aborted /\ Len(chan.queue) > 0

\* C26 as stated: items pushed before close() that have not been consumed
\* are never delivered: once the channel is closed, next() rejects with the
\* close error even while the internal queue is non-empty.
C26_Stated_NextRejectsWhileQueued ==
    /\ [][chan.aborted => chan'.queue = chan.queue]_vars
    /\ [](ClosedWithQueue =>
            \A o \in AllSeen :
                o.late => (o.kind = "throw" /\ o.err = o.cur))

\* C26 amended: items left in the queue when close() is called stay there
\* and are never delivered: while the queue is non-empty, a next() made
\* after the close on an iterator that has not terminated rejects with the
\* error of the latest close(), and a next() on an iterator that has already
\* rejected resolves as done; neither takes an item.
C26_QueuedItemsNeverDelivered ==
    /\ [][chan.aborted => chan'.queue = chan.queue]_vars
    /\ [](ClosedWithQueue =>
            \A o \in AllSeen :
                o.late => /\ o.kind # "value"
                          /\ IF o.wasDone THEN o.kind = "done"
                             ELSE o.kind = "throw" /\ o.err = o.cur)

\* Witness for C26: two items are queued, the channel is closed, one
\* iterator's next() rejected and its following next() resolved done, the
\* other iterator's next() rejected too, and both items are still queued.
C26_Witness ==
    /\ chan.aborted
    /\ Len(chan.queue) = 2
    /\ \E i \in Iters : \E j \in Iters \ {i} :
        /\ Len(ch_out[i]) = 2
        /\ ch_out[i][1].late /\ ch_out[i][1].kind = "throw"
        /\ ch_out[i][2].late /\ ch_out[i][2].kind = "done"
        /\ Len(ch_out[j]) = 1
        /\ ch_out[j][1].late /\ ch_out[j][1].kind = "throw"

(***************************************************************************)
(* Claims on KLLSketch: level capacities and eager compaction              *)
(***************************************************************************)

\* Every level holds at most capacityAt(h) items, the capacity taken with
\* the current number of levels.
WithinCapacity(lv) ==
    \A h \in 0..(Len(lv) - 1) : Len(lv[h + 1]) <= capacityAt(lv, h)

\* The outcomes of a lazy add / addMany are within capacity and the eager
\* sweep run on any of them returns it unchanged.
SweepIdle(outcomes) ==
    \A l \in outcomes : WithinCapacity(l) /\ compactUpward(l, 0) = {l}

\* C27: after every add or addMany call every level h holds at most
\* capacityAt(h) items (capacity computed with the current number of
\* levels), so the bottom-up sweep of eagerCompaction mode compacts nothing:
\* for every random choice of the call, the eager sketch ends with the
\* levels the lazy sketch ends with.
C27_EagerSweepCompactsNothing ==
    /\ WithinCapacity(levels)
    /\ \A x \in KInputs :
           /\ SweepIdle(KLLSketch_add(levels, FALSE, x))
           /\ KLLSketch_add(levels, TRUE, x) = KLLSketch_add(levels, FALSE, x)
    /\ \A arr \in KBatches :
           /\ SweepIdle(KLLSketch_addMany(levels, FALSE, arr))
           /\ KLLSketch_addMany(levels, TRUE, arr) =
                  KLLSketch_addMany(levels, FALSE, arr)

\* Witness for C27: an eager sketch whose compaction chained through levels
\* 0 and 1 and created level 2 (which lowered the capacities of the levels
\* below it), and which has taken a value since.
C27_Witness ==
    /\ eager
    /\ Len(levels) = 3
    /\ Len(levels[1]) = 1
    /\ levels[2] = <<>>
    /\ Len(levels[3]) = 4

(***************************************************************************)
(* Claims on FIRFilter: the last tap                                       *)
(***************************************************************************)

\* Input arrays tried on the pair of filters.
FirProbes == UNION {[1..k -> FirSamples] : k \in 0..2}

\* The tap arrays that differ from f in the last tap only.
LastTapVariants(f) ==
    {[f EXCEPT ![Len(f)] = t] : t \in FirTaps \ {f[Len(f)]}}

\* C28: for a FIRFilter with N >= 2 taps the last tap f[N-1] never
\* influences any output: a filter g whose taps differ from f's only in the
\* last one starts in the same state as f, and from any state the two have
\* reached on the same calls, singleStep, multiStep and simulate (and
\* filtfilt) return the same outputs and leave the same state on both, for
\* every input.
C28_LastTapHasNoInfluence ==
    Len(fir_f) >= 2 =>
        \A g \in LastTapVariants(fir_f) :
            /\ FIRFilter_reinit(g) = FIRFilter_reinit(fir_f)
            /\ \A x \in FirSamples :
                   FIRFilter_singleStep(g, fir_z, x) =
                       FIRFilter_singleStep(fir_f, fir_z, x)
            /\ \A xs \in FirProbes :
                   /\ FIRFilter_multiStep(g, fir_z, xs) =
                          FIRFilter_multiStep(fir_f, fir_z, xs)
                   /\ FIRFilter_simulate(g, fir_z, xs) =
                          FIRFilter_simulate(fir_f, fir_z, xs)
                   /\ FIRFilter_filtfilt(g, fir_z, xs) =
                          FIRFilter_filtfilt(fir_f, fir_z, xs)

\* Witness for C28: a three-tap filter with a non-zero last tap whose delay
\* line is full of samples after three calls, the last one a multiStep with
\* a non-zero output.
C28_Witness ==
    /\ Len(fir_f) = 3
    /\ fir_f[3] = 2
    /\ fir_nops = 3
    /\ fir_last.op = "multiStep"
    /\ Len(fir_last.out) = 1 /\ fir_last.out[1] # 0
    /\ fir_z.buf[0] # 0 /\ fir_z.buf[1] # 0

(***************************************************************************)
(* Claims on deriveHRV: a lasting change of rhythm                         *)
(***************************************************************************)

\* The rounded RR values of the measurement a step takes from the stream.
HrvTaken == hrv_in'[Len(hrv_in')].rrIntervals.list

\* A value was accepted earlier, and every in-range RR value of the
\* measurement this step takes differs from the most recently accepted
\* value by more than 250 ms.
HrvAllJump ==
    /\ Len(hrv_in') = Len(hrv_in) + 1
    /\ hrv_last # 0
    /\ \A i \in 1..Len(HrvTaken) :
           LET rrMs == RoundMs(HrvTaken[i])
           IN  (rrMs >= 300 /\ rrMs <= 2000) => Abs(rrMs - hrv_last) > 250

\* C29: once deriveHRV has accepted an RR value, a measurement whose
\* in-range RR values all differ by more than 250 ms from the most recently
\* accepted value has none of them accepted and leaves the window, the most
\* recently accepted value and the reported hrv as they were; hence as long
\* as the stream goes on like that the window and the hrv stay frozen.
C29_JumpedRhythmFreezesWindow ==
    [][HrvAllJump =>
          /\ hrv_buf' = hrv_buf
          /\ hrv_last' = hrv_last
          /\ \A k \in 1..Len(hrv_log') : ~hrv_log'[k].accepted
          /\ Len(hrv_out) > 0
          /\ hrv_out'[Len(hrv_out')].window = hrv_out[Len(hrv_out)].window
          /\ hrv_out'[Len(hrv_out')].hrv = hrv_out[Len(hrv_out)].hrv
          /\ hrv_out'[Len(hrv_out')].nacc = hrv_out[Len(hrv_out)].nacc]_vars

\* Witness for C29: the first measurement gave 300 and 550 ms (hrv defined);
\* the second and the third each brought 2000 ms, in range but 1450 ms away,
\* and the window and the hrv are those of the first tick.
C29_Witness ==
    /\ Len(hrv_out) = 3
    /\ hrv_in[1].rrIntervals.list = <<2995, 5495>>
    /\ hrv_in[2].rrIntervals.list = <<20004>>
    /\ hrv_in[3].rrIntervals.list = <<20004>>
    /\ hrv_out[1].window = <<300, 550>>
    /\ hrv_out[1].hrv.defined
    /\ hrv_out[3].window = <<300, 550>>
    /\ hrv_out[3].hrv = hrv_out[1].hrv
    /\ hrv_last = 550

====
